---- MODULE Spec2Model ----
(***************************************************************************)
(* Edward Voice AI: the turn-taking pipeline and the conversation manager. *)
(*                                                                         *)
(*   VadSpec  - VoiceActivityDetector.process_audio       (src/vad.py)     *)
(*   RecSpec  - record_until_silence / record_voice       (src/vad.py,     *)
(*              src/voice_input.py): the device callback thread against   *)
(*              the 100 ms polling loop                                    *)
(*   GuiSpec  - EdwardGUI.process_voice, interact, clear_chat and the      *)
(*              worker threads (src/gui.py)                                *)
(*   Spec     - ConversationManager, get_response, clear_conversation      *)
(*              (src/ai_brain.py)                                          *)
(*   PersistSpec   - the history file across save, construction and clear  *)
(*              (src/ai_brain.py)                                          *)
(*   SentimentSpec - _analyze_sentiment on bounded texts (src/ai_brain.py) *)
(*   DialogueSpec  - get_response called repeatedly (src/ai_brain.py)      *)
(*   MessageSpec   - add_message on chosen role/content/emotion calls      *)
(*              (src/ai_brain.py)                                          *)
(*   ThoughtsSpec  - get_response on replies carrying the thought and     *)
(*              response markers (src/ai_brain.py)                         *)
(*   EnergySpec    - process_audio when the energy heuristic decides       *)
(*              (src/vad.py)                                               *)
(*   DegradeSpec   - detectors constructed before and after the           *)
(*              classifier has failed (src/vad.py)                         *)
(*   EmotionSpec   - get_random_emotion (src/ai_brain.py)                  *)
(*   AppSpec  - start-up, the window and its turns (src/config.py,         *)
(*              src/main.py, src/gui.py)                                   *)
(*   SpeechSpec    - speak, speech_to_text and the voice manager           *)
(*              (src/text_to_speech.py, src/speech_to_text.py,             *)
(*              src/voice_manager.py, src/voice_responses.py)              *)
(*                                                                         *)
(* Every specification shares the module's variables; the variables of    *)
(* the components a specification does not run keep their initial value.  *)
(***************************************************************************)
EXTENDS Integers, Sequences, FiniteSets, TLC

VARIABLES
    \* ---- VoiceActivityDetector (src/vad.py:30-46)
    is_speaking,        \* self.is_speaking
    speech_buffer,      \* self.speech_buffer: the rolling raw decisions
    vad,                \* self.vad is not None (the classifier is usable)
    VAD_AVAILABLE,      \* the module-level flag
    raw_tail,           \* history: the last (up to 3) raw decisions
    buf_len_seen,       \* history: len(speech_buffer) right after the append
    was_speaking,       \* history: is_speaking before the last process_audio
    classifier_threw,   \* history: the classifier raised inside a process_audio call
    energy_since_throw, \* history: every frame processed after the call in which
                        \* the classifier raised got the energy heuristic's decision
    \* ---- record_until_silence / record_voice
    rec_pc,             \* "idle" | "polling" | "break" | "closed" | "returned"
    audio_buffer,       \* the accumulated buffers: [idx, speech]
    silent_frames,      \* the nonlocal counter of the callback
    frames_before_silence,
    max_frames,
    delivered,          \* buffers delivered by the device since the stream opened
    first_speech,       \* history: index of the first buffer reported as speech, 0 if none
    stop_requested,     \* the value stop_event() would return
    slept_with_stop,    \* history: a poll went back to sleep although stop_event() was true
    slept_past_max,     \* history: a poll went back to sleep with delivered >= max_frames
    silence_reached,    \* history: silent_frames reached frames_before_silence after speech
    slept_past_silence, \* history: a poll went back to sleep after silence_reached
    stream_active,      \* stream.active
    rec_result,         \* record_voice's return value: "pending" | "None" | "path"
    written,            \* the buffers record_voice wrote to the file, in order
    \* ---- EdwardGUI (src/gui.py:41-42)
    is_recording,       \* self.is_recording
    worker,             \* the _process_voice_thread threads started so far, by position
    button_text,        \* the record button's label
    pending_resets,     \* _reset_record_button calls queued with root.after
    ui_pc,              \* the call the UI thread is inside, "idle" between events
    \* ---- ConversationManager and the module state of ai_brain.py
    max_history,            \* self.max_history
    conversation_history,   \* self.conversation_history
    last_interaction_time,  \* self.last_interaction_time, in ticks of the clock
    user_name,              \* self.user_name
    conversation_topics,    \* self.conversation_topics
    user_preferences,       \* self.user_preferences: a set of <<key, value>>
    conversation_mood,      \* self.conversation_mood
    history_file,           \* CONVERSATION_HISTORY_FILE: [exists, data]
    thoughts_log,           \* what the running call has appended to ai_thoughts.log
    error_log,              \* what the running call has appended to error_log.txt
    gr_pc,                  \* position of the running call: "idle" | "call" | "except" | "done"
    gr_sentiment,           \* get_response's local sentiment
    gr_exc,                 \* the exception being handled: [handler, name]
    result,                 \* what the finished call hands its caller
    locals,                 \* the running call's locals: its arguments and the
                            \* outcome of the completion service
    \* ---- the process: config.py, main.py, text_to_speech.py, voice_manager.py,
    \* ---- speech_to_text.py
    env,                    \* which of the credentials the environment sets
    app_pc,                 \* "off" | "running" | "exited" | "aborted"
    validated,              \* history: validate_required_vars ran and passed
    ELEVENLABS_ENABLED,     \* text_to_speech.ELEVENLABS_ENABLED
    vm_client,              \* voice_manager.client is not None
    voices,                 \* voice_manager.voices, in insertion order: [name, voice_id]
    last_call,              \* history: the arguments of the last library call
    trace,                  \* history: the steps the last call went through, in order
    outcome                 \* what the last call handed its caller: [op, kind, value]

vadVars == <<is_speaking, speech_buffer, vad, VAD_AVAILABLE, raw_tail, buf_len_seen,
             was_speaking, classifier_threw, energy_since_throw>>
recVars == <<rec_pc, audio_buffer, silent_frames, frames_before_silence, max_frames,
             delivered, first_speech, stop_requested, slept_with_stop, slept_past_max,
             silence_reached, slept_past_silence, stream_active, rec_result,
             written>>
guiVars == <<is_recording, worker, button_text, pending_resets, ui_pc>>
cmVars == <<max_history, conversation_history, last_interaction_time, user_name,
            conversation_topics, user_preferences, conversation_mood>>
convVars == <<cmVars, history_file, thoughts_log, error_log, gr_pc, gr_sentiment,
              gr_exc, result, locals>>
appVars == <<env, app_pc, validated, ELEVENLABS_ENABLED, vm_client, voices, last_call,
             trace, outcome>>
vars == <<vadVars, recVars, guiVars, convVars, appVars>>

(***************************************************************************)
(* Bounds of the model.                                                    *)
(***************************************************************************)
\* buffers the device delivers in one capture
MaxDelivered == 11
\* largest frames_before_silence = int(silence_duration*sample_rate/1024) drawn
MaxSilenceFrames == 2
\* largest max_frames = int(max_duration*sample_rate/1024) drawn
MaxMaxFrames == 3
\* worker threads the GUI starts in one run
MaxWorkers == 3
\* largest max_history a ConversationManager is constructed with
MaxHistoryCap == 1
\* words in a text handed to _analyze_sentiment
MaxWords == 3
\* messages appended to one conversation in one run
MaxMessages == 2
\* members of HUMAN_TRAITS['EMOTIONS'] that random.choice is let to return
MaxChoice == 2

(***************************************************************************)
(* Frames.  A device buffer of 1024 samples holds two full chunks of       *)
(* samples_per_frame = 480 samples (the trailing 64 samples are skipped,   *)
(* vad.py:68-69).  A frame is described by what the classifier answers on  *)
(* each full chunk and by its (uniform) absolute amplitude on the          *)
(* normalised [-1,1] scale, in millionths.                                 *)
(***************************************************************************)
ChunkOutcomes == {"speech", "nonspeech", "error"}
Amplitudes == {0, 20, 1000, 20000}
Frames == [chunks : [1..2 -> ChunkOutcomes], amp : Amplitudes]

\* (audio_data * 32767).astype(np.int16) on a float frame: truncation
ToInt16(amp) == (amp * 32767) \div 1000000

\* the classifier loop, vad.py:66-83: first positive chunk wins, an exception
\* disables the classifier and leaves the decision negative
RECURSIVE ClassifierLoop(_, _)
ClassifierLoop(chunks, i) ==
    IF i > Len(chunks) THEN [speech |-> FALSE, failed |-> FALSE]
    ELSE IF chunks[i] = "speech" THEN [speech |-> TRUE, failed |-> FALSE]
    ELSE IF chunks[i] = "error" THEN [speech |-> FALSE, failed |-> TRUE]
    ELSE ClassifierLoop(chunks, i + 1)

\* energy = np.mean(np.abs(audio_data)); energy > 0.01, on the int16 data
EnergyDecision(frame) == ToInt16(frame.amp) * 100 > 1

\* a raw decision whose exception handler leaves the classifier in place
RawDecisionKeepsClassifier(frame, classifier) ==
    IF classifier
    THEN [speech |-> ClassifierLoop(frame.chunks, 1).speech, vad |-> TRUE,
          threw |-> ClassifierLoop(frame.chunks, 1).failed]
    ELSE [speech |-> EnergyDecision(frame), vad |-> FALSE, threw |-> FALSE]

\* the raw per-frame decision, vad.py:58-87: [speech, vad, threw], vad the
\* classifier's state after the call, threw whether the except clause ran
RawDecision(frame, classifier) ==
    IF classifier
    THEN LET r == ClassifierLoop(frame.chunks, 1)
         IN  [speech |-> r.speech, vad |-> ~r.failed, threw |-> r.failed]
    ELSE [speech |-> EnergyDecision(frame), vad |-> FALSE, threw |-> FALSE]

(***************************************************************************)
(* Python string operations used by ai_brain.py, on TLA+ strings.          *)
(***************************************************************************)
Char(s, i) == SubSeq(s, i, i)
IsSpace(c) == c \in {" ", "\t", "\n"}
UpperLetters == "ABCDEFGHIJKLMNOPQRSTUVWXYZ"
LowerLetters == "abcdefghijklmnopqrstuvwxyz"

\* str.lower() / str.upper() on one character
LowerTable ==
    [c \in {Char(UpperLetters, i) : i \in 1..26} |->
        Char(LowerLetters, CHOOSE i \in 1..26 : Char(UpperLetters, i) = c)]
UpperTable ==
    [c \in {Char(LowerLetters, i) : i \in 1..26} |->
        Char(UpperLetters, CHOOSE i \in 1..26 : Char(LowerLetters, i) = c)]
LowerChar(c) == IF c \in DOMAIN LowerTable THEN LowerTable[c] ELSE c
UpperChar(c) == IF c \in DOMAIN UpperTable THEN UpperTable[c] ELSE c

\* str.lower()
RECURSIVE Lower(_)
Lower(s) == IF Len(s) = 0 THEN "" ELSE LowerChar(Char(s, 1)) \o Lower(SubSeq(s, 2, Len(s)))

\* str.capitalize()
Capitalize(s) ==
    IF Len(s) = 0 THEN "" ELSE UpperChar(Char(s, 1)) \o Lower(SubSeq(s, 2, Len(s)))

\* str.lstrip(), str.rstrip(), str.strip()
RECURSIVE LStrip(_)
LStrip(s) ==
    IF Len(s) > 0 /\ IsSpace(Char(s, 1)) THEN LStrip(SubSeq(s, 2, Len(s))) ELSE s
RECURSIVE RStrip(_)
RStrip(s) ==
    IF Len(s) > 0 /\ IsSpace(Char(s, Len(s))) THEN RStrip(SubSeq(s, 1, Len(s) - 1)) ELSE s
Strip(s) == RStrip(LStrip(s))

\* str.rstrip('.,!?')
RECURSIVE RStripPunct(_)
RStripPunct(s) ==
    IF Len(s) > 0 /\ Char(s, Len(s)) \in {".", ",", "!", "?"}
    THEN RStripPunct(SubSeq(s, 1, Len(s) - 1)) ELSE s

StartsWith(s, p) == Len(s) >= Len(p) /\ SubSeq(s, 1, Len(p)) = p
EndsWith(s, p) == Len(s) >= Len(p) /\ SubSeq(s, Len(s) - Len(p) + 1, Len(s)) = p

\* str.find(sub): the first position (from 1) of sub in s, 0 when absent
Find(s, sub) ==
    LET at == {i \in 1..(Len(s) - Len(sub) + 1) : SubSeq(s, i, i + Len(sub) - 1) = sub}
    IN  IF at = {} THEN 0 ELSE CHOOSE i \in at : \A j \in at : i <= j
\* sub in s
Contains(s, sub) == Find(s, sub) > 0

\* s.split(sep, 1): one or two parts
SplitOnce(s, sep) ==
    LET i == Find(s, sep)
    IN  IF i = 0 THEN <<s>>
        ELSE <<SubSeq(s, 1, i - 1), SubSeq(s, i + Len(sep), Len(s))>>

\* the first position from i on that holds whitespace, Len(s) + 1 when none does
RECURSIVE TokenEnd(_, _)
TokenEnd(s, i) ==
    IF i > Len(s) \/ IsSpace(Char(s, i)) THEN i ELSE TokenEnd(s, i + 1)

\* s.split(): the whitespace-separated tokens
RECURSIVE SplitWs(_)
SplitWs(s) ==
    LET t == LStrip(s)
        e == TokenEnd(t, 1)
    IN  IF Len(t) = 0 THEN <<>>
        ELSE <<SubSeq(t, 1, e - 1)>> \o SplitWs(SubSeq(t, e, Len(t)))

\* s[:n]
Prefix(s, n) == IF Len(s) <= n THEN s ELSE SubSeq(s, 1, n)

LastN(s, n) == IF Len(s) <= n THEN s ELSE SubSeq(s, Len(s) - n + 1, Len(s))
AnyTrue(s) == \E i \in 1..Len(s) : s[i]

\* a release rule that drops the debounce: one negative frame ends speech
HysteresisNoRelease(raw, speaking, buffer) ==
    LET b == Append(buffer, raw)
    IN  IF raw
        THEN IF Len(b) > 3
             THEN [is_speaking |-> TRUE, speech_buffer |-> LastN(b, 3), len |-> Len(b)]
             ELSE [is_speaking |-> speaking, speech_buffer |-> b, len |-> Len(b)]
        ELSE [is_speaking |-> FALSE, speech_buffer |-> <<>>, len |-> Len(b)]

\* the hysteresis, vad.py:89-102
Hysteresis(raw, speaking, buffer) ==
    LET b == Append(buffer, raw)
    IN  IF raw
        THEN IF Len(b) > 3
             THEN [is_speaking |-> TRUE, speech_buffer |-> LastN(b, 3), len |-> Len(b)]
             ELSE [is_speaking |-> speaking, speech_buffer |-> b, len |-> Len(b)]
        ELSE IF Len(b) > 5 /\ ~AnyTrue(LastN(b, 3))
             THEN [is_speaking |-> FALSE, speech_buffer |-> <<>>, len |-> Len(b)]
             ELSE [is_speaking |-> speaking, speech_buffer |-> b, len |-> Len(b)]

\* VoiceActivityDetector.process_audio(frame), vad.py:48-102
ProcessAudio(frame) ==
    LET d == RawDecision(frame, vad)
        h == Hysteresis(d.speech, is_speaking, speech_buffer)
    IN  /\ is_speaking' = h.is_speaking
        /\ speech_buffer' = h.speech_buffer
        /\ vad' = d.vad
        /\ VAD_AVAILABLE' = (VAD_AVAILABLE /\ d.vad)
        /\ raw_tail' = LastN(Append(raw_tail, d.speech), 3)
        /\ buf_len_seen' = h.len
        /\ was_speaking' = is_speaking
        /\ classifier_threw' = (classifier_threw \/ d.threw)
        /\ energy_since_throw' =
             (energy_since_throw
                /\ (classifier_threw => d.speech = EnergyDecision(frame)))

\* VoiceActivityDetector.__init__, vad.py:22-46: the classifier is there when
\* the import and Vad(aggressiveness) both succeeded
DetectorInit(available) ==
    /\ is_speaking = FALSE
    /\ speech_buffer = <<>>
    /\ vad = available
    /\ VAD_AVAILABLE = available
    /\ raw_tail = <<>>
    /\ buf_len_seen = 0
    /\ was_speaking = FALSE
    /\ classifier_threw = FALSE
    /\ energy_since_throw = TRUE

RecIdle ==
    /\ rec_pc = "idle"
    /\ audio_buffer = <<>>
    /\ silent_frames = 0
    /\ frames_before_silence = 0
    /\ max_frames = 0
    /\ delivered = 0
    /\ first_speech = 0
    /\ stop_requested = FALSE
    /\ slept_with_stop = FALSE
    /\ slept_past_max = FALSE
    /\ silence_reached = FALSE
    /\ slept_past_silence = FALSE
    /\ stream_active = FALSE
    /\ rec_result = "pending"
    /\ written = <<>>

(***************************************************************************)
(* ai_brain.py: the humanizer, the sentiment heuristic and the             *)
(* ConversationManager, as operators on the manager's fields.              *)
(***************************************************************************)
\* audio_utils.py:79-80: the only key is EMOTIONS
HUMAN_TRAITS ==
    [EMOTIONS |-> <<"angry", "disust", "fear", "joy", "sadness", "surprise", "neutral">>]

\* the system message of _initialize_conversation, ai_brain.py:136-150
\* (the text between its first and last sentence is left out)
SystemMessage ==
    [role |-> "system",
     content |-> "You are Anglo, a personal assistant voice AI ... [RESPONSE: Your actual response to the user]"]

\* the random draws of one humanize_text call: the four coin flips and the
\* index random.choice picks
Draws == [coins : [1..4 -> BOOLEAN], pick : 1..MaxChoice]
\* the draws of a call that never reaches humanize_text
NoDraw == [coins |-> [i \in 1..4 |-> FALSE], pick |-> 1]
\* the draws add_message can make for a role
DrawsFor(role) == IF role = "assistant" THEN Draws ELSE {NoDraw}

\* get_random_emotion, ai_brain.py:88-93
GetRandomEmotionAlwaysDraws(emotion_type, pick) == HUMAN_TRAITS["EMOTIONS"][pick]
GetRandomEmotion(emotion_type, pick) ==
    LET emotions == HUMAN_TRAITS["EMOTIONS"]
    IN  IF \E i \in 1..Len(emotions) : emotions[i] = emotion_type
        THEN emotion_type
        ELSE emotions[pick]

\* len(text.split()): the number of maximal runs of non-whitespace characters
WordCount(text) ==
    Cardinality({i \in 1..Len(text) :
                   /\ ~IsSpace(Char(text, i))
                   /\ (i = 1 \/ IsSpace(Char(text, i - 1)))})

\* HUMAN_TRAITS[key]: a KeyError when the key is missing
HasTrait(key) == key \in DOMAIN HUMAN_TRAITS

\* the steps of humanize_text on s = [exc, text]; exc = "" while no step raised
\* the filler, ai_brain.py:101-103
AddFiller(s, d) ==
    IF ~d.coins[1] THEN s
    ELSE IF ~HasTrait("fillers") THEN [s EXCEPT !.exc = "KeyError"]
    ELSE [s EXCEPT !.text = Capitalize(HUMAN_TRAITS["fillers"][d.pick]) \o ", "
                              \o LowerChar(Char(@, 1)) \o SubSeq(@, 2, Len(@))]

\* the thinking phrase, ai_brain.py:106-108
AddThinking(s, d) ==
    IF s.exc # "" \/ ~d.coins[2] \/ WordCount(s.text) <= 5 THEN s
    ELSE IF ~HasTrait("thinking_phrases") THEN [s EXCEPT !.exc = "KeyError"]
    ELSE [s EXCEPT !.text = HUMAN_TRAITS["thinking_phrases"][d.pick] \o " " \o @]

\* the acknowledgment, ai_brain.py:111-113
AddAcknowledgment(s, d) ==
    IF s.exc # "" \/ ~d.coins[3] \/ WordCount(s.text) <= 8 THEN s
    ELSE IF ~HasTrait("acknowledgments") THEN [s EXCEPT !.exc = "KeyError"]
    ELSE [s EXCEPT !.text = @ \o " " \o Lower(HUMAN_TRAITS["acknowledgments"][d.pick])
                              \o "."]

\* the emotional expression, ai_brain.py:116-119
AddEmotion(s, emoji, d) ==
    IF s.exc # "" \/ ~d.coins[4] \/ emoji = "" THEN s
    ELSE [s EXCEPT !.text = @ \o " " \o emoji]

\* humanize_text, ai_brain.py:95-121: [exc, text]; exc = "" when it returns
HumanizeText(text, emotion, d) ==
    IF Strip(text) = "" THEN [exc |-> "", text |-> text]
    ELSE AddEmotion(
           AddAcknowledgment(AddThinking(AddFiller([exc |-> "", text |-> text], d), d), d),
           GetRandomEmotion(emotion, d.pick), d)

\* a sentiment rule without the margin of one
AnalyzeSentimentNoMargin(text) ==
    LET positive_words == {"happy", "great", "awesome", "amazing", "love", "wonderful"}
        negative_words == {"sad", "bad", "terrible", "awful", "hate", "angry"}
        toks == SplitWs(Lower(text))
        words == {toks[i] : i \in 1..Len(toks)}
        pos_count == Cardinality(words \cap positive_words)
        neg_count == Cardinality(words \cap negative_words)
    IN  IF pos_count > neg_count THEN "happy"
        ELSE IF neg_count > pos_count THEN "concerned"
        ELSE "neutral"

\* _analyze_sentiment, ai_brain.py:227-240
AnalyzeSentiment(text) ==
    LET positive_words == {"happy", "great", "awesome", "amazing", "love", "wonderful"}
        negative_words == {"sad", "bad", "terrible", "awful", "hate", "angry"}
        toks == SplitWs(Lower(text))
        words == {toks[i] : i \in 1..Len(toks)}
        pos_count == Cardinality(words \cap positive_words)
        neg_count == Cardinality(words \cap negative_words)
    IN  IF pos_count > neg_count + 1 THEN "happy"
        ELSE IF neg_count > pos_count + 1 THEN "concerned"
        ELSE "neutral"

\* the manager's fields as one record
CM ==
    [max_history |-> max_history,
     conversation_history |-> conversation_history,
     last_interaction_time |-> last_interaction_time,
     user_name |-> user_name,
     conversation_topics |-> conversation_topics,
     user_preferences |-> user_preferences,
     conversation_mood |-> conversation_mood]

\* lst[-(k):] in Python: the last k elements, and the whole list when k = 0
NegSlice(lst, k) == IF k = 0 THEN lst ELSE LastN(lst, k)

\* a truncation that keeps the newest entries and lets the system message go
TruncateDropSystem(history, m) ==
    IF Len(history) > m * 2 + 1
    THEN LastN(history, m * 2 + 1)
    ELSE history

\* the truncation of add_message, ai_brain.py:203-205
Truncate(history, m) ==
    IF Len(history) > m * 2 + 1
    THEN <<history[1]>> \o NegSlice(history, m * 2)
    ELSE history

\* the name assignment, ai_brain.py:180-182, on the token that follows the phrase
RememberName(cm, name_part) ==
    IF name_part # "" /\ Len(name_part) > 1
    THEN [cm EXCEPT !.user_name = name_part,
                    !.user_preferences =
                        {q \in @ : q[1] # "name"} \cup {<<"name", name_part>>}]
    ELSE cm

\* .split()[0] of what follows the phrase, ai_brain.py:179: [exc, cm]
FirstToken(cm, toks) ==
    IF Len(toks) = 0 THEN [exc |-> "IndexError", cm |-> cm]
    ELSE [exc |-> "", cm |-> RememberName(cm, RStripPunct(toks[1]))]

\* content.split('my name is ', 1)[1], ai_brain.py:179: [exc, cm]
ExtractName(cm, parts) ==
    IF Len(parts) < 2 THEN [exc |-> "IndexError", cm |-> cm]
    ELSE FirstToken(cm, SplitWs(parts[2]))

\* the name extraction, ai_brain.py:176-182, after the clock and the mood
\* were set: [exc, cm]
ExtractUserName(cm, content, role) ==
    IF role = "user" /\ Contains(Lower(content), "my name is ")
    THEN ExtractName(cm, SplitOnce(content, "my name is "))
    ELSE [exc |-> "", cm |-> cm]

\* _update_conversation_meta, ai_brain.py:165-182, at tick now; long_gap says
\* whether more than an hour passed since last_interaction_time.
\* [exc, cm]: the assignments made before an IndexError stay
UpdateConversationMeta(cm, content, role, now, long_gap) ==
    ExtractUserName([cm EXCEPT !.last_interaction_time = now,
                               !.conversation_mood = IF long_gap THEN "warm" ELSE @],
                    content, role)

\* a truncation that gives the retained messages the mood of the moment
TruncateAfterRetouching(u, m) ==
    IF u.exc # "" THEN u
    ELSE [u EXCEPT !.cm.conversation_history =
            [i \in 1..Len(Truncate(@, m)) |->
               IF Truncate(@, m)[i].role = "system" THEN Truncate(@, m)[i]
               ELSE [Truncate(@, m)[i] EXCEPT !.emotion = u.cm.conversation_mood]]]

\* the truncation that ends add_message, ai_brain.py:203-205, reached only
\* when _update_conversation_meta returned
TruncateAfter(u, m) ==
    IF u.exc # "" THEN u
    ELSE [u EXCEPT !.cm.conversation_history = Truncate(@, m)]

\* add_message from the append on, ai_brain.py:193-205; h is what the
\* humanizer made of the content
AppendMessage(cm, role, emotion, long_gap, h) ==
    IF h.exc # "" THEN [exc |-> h.exc, cm |-> cm]
    ELSE TruncateAfter(
           UpdateConversationMeta(
             [cm EXCEPT !.conversation_history =
                Append(@, [role |-> role,
                           content |-> h.text,
                           timestamp |-> cm.last_interaction_time + 1,
                           emotion |-> IF emotion # "" THEN emotion
                                       ELSE cm.conversation_mood])],
             h.text, role, cm.last_interaction_time + 1, long_gap),
           cm.max_history)

\* an add_message without the blank-content return of ai_brain.py:186-187
AddMessageToBlankToo(cm, role, content, emotion, long_gap, d) ==
    AppendMessage(cm, role, emotion, long_gap,
                  IF role = "assistant" /\ ~StartsWith(content, "[THOUGHTS:")
                  THEN HumanizeText(content, cm.conversation_mood, d)
                  ELSE [exc |-> "", text |-> content])

\* ConversationManager.add_message, ai_brain.py:184-205; emotion = "" stands
\* for None.  [exc, cm]
AddMessageTo(cm, role, content, emotion, long_gap, d) ==
    IF Strip(content) = "" THEN [exc |-> "", cm |-> cm]
    ELSE AppendMessage(cm, role, emotion, long_gap,
                       IF role = "assistant" /\ ~StartsWith(content, "[THOUGHTS:")
                       THEN HumanizeText(content, cm.conversation_mood, d)
                       ELSE [exc |-> "", text |-> content])

\* EdwardGUI.__init__, gui.py:39-48
GuiIdle ==
    /\ is_recording = FALSE
    /\ worker = [w \in 1..MaxWorkers |-> "unstarted"]
    /\ button_text = "Record Voice"
    /\ pending_resets = 0
    /\ ui_pc = "idle"

\* what a call that has not finished hands its caller
NoResult == [op |-> "", kind |-> "none", value |-> "", dropped |-> 0]

\* a call that has not reached the completion service
NoService == [kind |-> "none", text |-> "", exc |-> ""]

\* the locals when no call is running
NoLocals == [args |-> <<>>, service |-> NoService]

\* the persisted history file before anything was saved
NoFile == [exists |-> FALSE, readable |-> FALSE, parses |-> FALSE, data |-> <<>>]

\* a call that has not finished
NoOutcome == [op |-> "", kind |-> "none", value |-> ""]

\* the process before it starts
AppOff ==
    /\ app_pc = "off"
    /\ validated = FALSE
    /\ ELEVENLABS_ENABLED = FALSE
    /\ vm_client = FALSE
    /\ voices = <<>>
    /\ last_call = <<>>
    /\ trace = <<>>
    /\ outcome = NoOutcome

AppIdle ==
    /\ env = [OPENAI_API_KEY |-> FALSE, ELEVENLABS_API_KEY |-> FALSE]
    /\ AppOff

ConvIdle ==
    /\ max_history = 0
    /\ conversation_history = <<SystemMessage>>
    /\ last_interaction_time = 0
    /\ user_name = "User"
    /\ conversation_topics = {}
    /\ user_preferences = {}
    /\ conversation_mood = "neutral"
    /\ history_file = NoFile
    /\ thoughts_log = <<>>
    /\ error_log = <<>>
    /\ gr_pc = "idle"
    /\ gr_sentiment = ""
    /\ gr_exc = [handler |-> "", name |-> ""]
    /\ result = NoResult
    /\ locals = NoLocals

(***************************************************************************)
(* VadSpec: one detector fed an arbitrary sequence of frames.              *)
(***************************************************************************)
VadInit ==
    (\E a \in BOOLEAN : DetectorInit(a)) /\ RecIdle /\ GuiIdle /\ ConvIdle /\ AppIdle

VadProcessAudio == \E f \in Frames : ProcessAudio(f) /\ UNCHANGED <<recVars, guiVars, convVars, appVars>>

VadNext == VadProcessAudio

VadSpec == VadInit /\ [][VadNext]_vars

(***************************************************************************)
(* EnergySpec: process_audio on float frames of amplitudes around the      *)
(* threshold; the amplitude of the call and whether the detector had its   *)
(* classifier are kept.                                                    *)
(***************************************************************************)
EnergyAmplitudes == {0, 20, 31, 1000, 10000, 10001, 20000}

EnergyFrames == [chunks : [1..2 -> {"nonspeech", "error"}], amp : EnergyAmplitudes]

EnergyInit == VadInit

EnergyProcessAudio ==
    /\ \E f \in EnergyFrames :
         /\ ProcessAudio(f)
         /\ last_call' = <<"process_audio", f.amp, vad>>
    /\ UNCHANGED <<env, app_pc, validated, ELEVENLABS_ENABLED, vm_client, voices, trace,
                   outcome>>
    /\ UNCHANGED <<recVars, guiVars, convVars>>

EnergyNext == EnergyProcessAudio

EnergySpec == EnergyInit /\ [][EnergyNext]_vars

(***************************************************************************)
(* DegradeSpec: one detector after the other (record_until_silence makes   *)
(* one per recording), each fed float frames; the module-level flag        *)
(* outlives them.                                                          *)
(***************************************************************************)
\* a constructor that tries Vad(aggressiveness) whatever the flag says
NewDetectorIgnoresFlag(available, init_ok) ==
    [vad |-> init_ok, VAD_AVAILABLE |-> available /\ init_ok]

\* the classifier part of __init__, vad.py:38-46: [vad, VAD_AVAILABLE];
\* init_ok says whether Vad(aggressiveness) returns
NewDetector(available, init_ok) ==
    [vad |-> available /\ init_ok, VAD_AVAILABLE |-> available /\ init_ok]

\* vad = VoiceActivityDetector(sample_rate, vad_aggressiveness), vad.py:124;
\* the histories of the frames start anew with the detector
NewDetectorCall ==
    /\ \E init_ok \in BOOLEAN :
       \E n \in {NewDetector(VAD_AVAILABLE, init_ok)} :
         /\ vad' = n.vad
         /\ VAD_AVAILABLE' = n.VAD_AVAILABLE
         /\ last_call' = <<"VoiceActivityDetector", VAD_AVAILABLE, init_ok>>
    /\ is_speaking' = FALSE
    /\ speech_buffer' = <<>>
    /\ raw_tail' = <<>>
    /\ buf_len_seen' = 0
    /\ was_speaking' = FALSE
    /\ UNCHANGED <<classifier_threw, energy_since_throw>>
    /\ UNCHANGED <<env, app_pc, validated, ELEVENLABS_ENABLED, vm_client, voices, trace,
                   outcome>>
    /\ UNCHANGED <<recVars, guiVars, convVars>>

DegradeNext == EnergyProcessAudio \/ NewDetectorCall

DegradeSpec == VadInit /\ [][DegradeNext]_vars

(***************************************************************************)
(* RecSpec: record_voice(use_vad=True) -> record_until_silence.  The       *)
(* device thread runs audio_callback once per delivered buffer; the        *)
(* calling thread polls the stop conditions every 100 ms.                  *)
(***************************************************************************)
\* an accumulation that also keeps the buffers before the first speech
AccumulateAlways(is_speech, buffer, idx) ==
    Append(buffer, [idx |-> idx, speech |-> is_speech])

\* audio_buffer after one callback, vad.py:136-141
Accumulate(is_speech, buffer, idx) ==
    IF is_speech \/ Len(buffer) > 0
    THEN Append(buffer, [idx |-> idx, speech |-> is_speech])
    ELSE buffer

\* silent_frames after one callback, vad.py:136-141
CountSilence(is_speech, buffer, n) ==
    IF is_speech THEN 0
    ELSE IF Len(buffer) > 0 THEN n + 1
    ELSE n

\* the loop's exit test, vad.py:157-158
StopCondition ==
    \/ (silent_frames >= frames_before_silence /\ Len(audio_buffer) > 0)
    \/ (max_frames > 0 /\ Len(audio_buffer) >= max_frames)

\* vad.py:124-128 and the stream opening at vad.py:148-155
RecInit ==
    /\ \E a \in BOOLEAN : DetectorInit(a)
    /\ rec_pc = "polling"
    /\ audio_buffer = <<>>
    /\ silent_frames = 0
    /\ frames_before_silence \in 0..MaxSilenceFrames
    /\ max_frames \in 0..MaxMaxFrames
    /\ delivered = 0
    /\ first_speech = 0
    /\ stop_requested = FALSE
    /\ slept_with_stop = FALSE
    /\ slept_past_max = FALSE
    /\ silence_reached = FALSE
    /\ slept_past_silence = FALSE
    /\ stream_active = TRUE
    /\ rec_result = "pending"
    /\ written = <<>>
    /\ GuiIdle
    /\ ConvIdle
    /\ AppIdle

\* audio_callback, vad.py:130-145 (callback is None in record_voice); the
\* device keeps calling it until the with-block has closed the stream
AudioCallback ==
    /\ rec_pc \in {"polling", "break"}
    /\ stream_active
    /\ delivered < MaxDelivered
    /\ \E f \in Frames : ProcessAudio(f)
    /\ delivered' = delivered + 1
    /\ audio_buffer' = Accumulate(is_speaking', audio_buffer, delivered + 1)
    /\ silent_frames' = CountSilence(is_speaking', audio_buffer, silent_frames)
    /\ first_speech' = IF first_speech = 0 /\ is_speaking' THEN delivered + 1
                       ELSE first_speech
    /\ silence_reached' = (silence_reached \/
                             (Len(audio_buffer') > 0 /\ ~is_speaking'
                              /\ silent_frames' >= frames_before_silence))
    /\ UNCHANGED <<rec_pc, frames_before_silence, max_frames, stop_requested,
                   slept_with_stop, slept_past_max, slept_past_silence,
                   stream_active, rec_result, written>>

\* one iteration of the while loop, vad.py:156-160
Poll ==
    /\ rec_pc = "polling"
    /\ IF ~stream_active \/ StopCondition
       THEN /\ rec_pc' = "break"
            /\ UNCHANGED <<slept_with_stop, slept_past_max, slept_past_silence>>
       ELSE /\ rec_pc' = "polling"
            /\ slept_with_stop' = (slept_with_stop \/ stop_requested)
            /\ slept_past_max' = (slept_past_max \/ delivered >= max_frames)
            /\ slept_past_silence' = (slept_past_silence \/ silence_reached)
    /\ UNCHANGED <<vadVars, audio_buffer, silent_frames, frames_before_silence,
                   max_frames, delivered, first_speech, stop_requested,
                   silence_reached, stream_active, rec_result, written>>

\* leaving the with-block closes the stream, vad.py:148-160
CloseStream ==
    /\ rec_pc = "break"
    /\ rec_pc' = "closed"
    /\ stream_active' = FALSE
    /\ UNCHANGED <<vadVars, audio_buffer, silent_frames, frames_before_silence,
                   max_frames, delivered, first_speech, stop_requested,
                   slept_with_stop, slept_past_max, silence_reached,
                   slept_past_silence, rec_result, written>>

\* record_voice's return value for the audio record_until_silence hands it,
\* voice_input.py:40-48
RecordVoiceResultAlwaysPath(buffer) == "path"
RecordVoiceResult(buffer) == IF Len(buffer) > 0 THEN "path" ELSE "None"

\* vad.py:162-165 and record_voice's return, voice_input.py:40-48
Finish ==
    /\ rec_pc = "closed"
    /\ rec_pc' = "returned"
    /\ rec_result' = RecordVoiceResult(audio_buffer)
    /\ written' = IF RecordVoiceResult(audio_buffer) = "path" THEN audio_buffer
                  ELSE <<>>
    /\ UNCHANGED <<vadVars, audio_buffer, silent_frames, frames_before_silence,
                   max_frames, delivered, first_speech, stop_requested,
                   slept_with_stop, slept_past_max, silence_reached,
                   slept_past_silence, stream_active>>

\* the caller's stop_event() turns true (gui.py:100, gui.py:107); record_voice
\* takes the predicate and never calls it (voice_input.py:12-48)
RequestStop ==
    /\ rec_pc = "polling"
    /\ ~stop_requested
    /\ stop_requested' = TRUE
    /\ UNCHANGED <<vadVars, rec_pc, audio_buffer, silent_frames, frames_before_silence,
                   max_frames, delivered, first_speech, slept_with_stop,
                   slept_past_max, silence_reached, slept_past_silence,
                   stream_active, rec_result, written>>

\* the device stops the stream (stream.active turns false, vad.py:156)
DeviceStops ==
    /\ rec_pc = "polling"
    /\ stream_active
    /\ stream_active' = FALSE
    /\ UNCHANGED <<vadVars, rec_pc, audio_buffer, silent_frames, frames_before_silence,
                   max_frames, delivered, first_speech, stop_requested,
                   slept_with_stop, slept_past_max, silence_reached,
                   slept_past_silence, rec_result, written>>

RecNext ==
    \/ AudioCallback /\ UNCHANGED <<guiVars, convVars, appVars>>
    \/ Poll /\ UNCHANGED <<guiVars, convVars, appVars>>
    \/ CloseStream /\ UNCHANGED <<guiVars, convVars, appVars>>
    \/ Finish /\ UNCHANGED <<guiVars, convVars, appVars>>
    \/ RequestStop /\ UNCHANGED <<guiVars, convVars, appVars>>
    \/ DeviceStops /\ UNCHANGED <<guiVars, convVars, appVars>>

RecSpec == RecInit /\ [][RecNext]_vars

(***************************************************************************)
(* GuiSpec: the record button, the text entry and the clear button (on the *)
(* UI thread, one event at a time) against the worker threads the record   *)
(* button starts (_process_voice_thread).                                  *)
(***************************************************************************)
Running(w) == worker[w] \in {"record_voice", "processing", "get_response", "finally"}

GuiInit == DetectorInit(FALSE) /\ RecIdle /\ GuiIdle /\ ConvIdle /\ AppIdle

\* process_voice with is_recording false, gui.py:88-98: a new thread starts
PressStart ==
    /\ ui_pc = "idle"
    /\ ~is_recording
    /\ \E w \in 1..MaxWorkers :
         /\ worker[w] = "unstarted"
         /\ \A v \in 1..(w - 1) : worker[v] # "unstarted"
         /\ worker' = [worker EXCEPT ![w] = "record_voice"]
    /\ is_recording' = TRUE
    /\ button_text' = "Stop Recording"
    /\ UNCHANGED <<pending_resets, ui_pc>>

\* process_voice with is_recording true, gui.py:99-101: the stop request
PressStop ==
    /\ ui_pc = "idle"
    /\ is_recording
    /\ is_recording' = FALSE
    /\ UNCHANGED <<worker, button_text, pending_resets, ui_pc>>

\* record_voice returns to the worker, gui.py:107-111: a path, or None
WorkerRecorded(w) ==
    /\ worker[w] = "record_voice"
    /\ \E audio_file \in {"path", "None"} :
         worker' = [worker EXCEPT ![w] = IF audio_file = "None" THEN "finally"
                                         ELSE "processing"]
    /\ UNCHANGED <<is_recording, button_text, pending_resets, ui_pc>>

\* speech_to_text returns a text and get_response is entered, or it returns
\* nothing or raises, gui.py:113-124
WorkerProcessed(w) ==
    /\ worker[w] = "processing"
    /\ \E text \in {"text", "None"} :
         worker' = [worker EXCEPT ![w] = IF text = "None" THEN "finally"
                                         ELSE "get_response"]
    /\ UNCHANGED <<is_recording, button_text, pending_resets, ui_pc>>

\* get_response returns, then speak, or an exception, gui.py:124-154
WorkerAnswered(w) ==
    /\ worker[w] = "get_response"
    /\ worker' = [worker EXCEPT ![w] = "finally"]
    /\ UNCHANGED <<is_recording, button_text, pending_resets, ui_pc>>

\* the finally block, gui.py:156-158
WorkerFinally(w) ==
    /\ worker[w] = "finally"
    /\ worker' = [worker EXCEPT ![w] = "done"]
    /\ is_recording' = FALSE
    /\ pending_resets' = pending_resets + 1
    /\ UNCHANGED <<button_text, ui_pc>>

\* _reset_record_button, run by the UI thread, gui.py:171-176
ResetRecordButton ==
    /\ ui_pc = "idle"
    /\ pending_resets > 0
    /\ pending_resets' = pending_resets - 1
    /\ button_text' = "Record Voice"
    /\ UNCHANGED <<is_recording, worker, ui_pc>>

\* interact with a non-empty entry, gui.py:289-305: the UI thread enters
\* get_response
UiInteract ==
    /\ ui_pc = "idle"
    /\ ui_pc' = "get_response"
    /\ UNCHANGED <<is_recording, worker, button_text, pending_resets>>

\* clear_chat once the question was answered with yes, gui.py:71-77: the UI
\* thread enters clear_conversation
UiClearChat ==
    /\ ui_pc = "idle"
    /\ ui_pc' = "clear_conversation"
    /\ UNCHANGED <<is_recording, worker, button_text, pending_resets>>

\* the call returns or raises and the handler ends, gui.py:306-319, 78-83
UiReturns ==
    /\ ui_pc # "idle"
    /\ ui_pc' = "idle"
    /\ UNCHANGED <<is_recording, worker, button_text, pending_resets>>

GuiNext ==
    \/ PressStart /\ UNCHANGED <<vadVars, recVars, convVars, appVars>>
    \/ PressStop /\ UNCHANGED <<vadVars, recVars, convVars, appVars>>
    \/ \E w \in 1..MaxWorkers : WorkerRecorded(w) /\ UNCHANGED <<vadVars, recVars, convVars, appVars>>
    \/ \E w \in 1..MaxWorkers : WorkerProcessed(w) /\ UNCHANGED <<vadVars, recVars, convVars, appVars>>
    \/ \E w \in 1..MaxWorkers : WorkerAnswered(w) /\ UNCHANGED <<vadVars, recVars, convVars, appVars>>
    \/ \E w \in 1..MaxWorkers : WorkerFinally(w) /\ UNCHANGED <<vadVars, recVars, convVars, appVars>>
    \/ ResetRecordButton /\ UNCHANGED <<vadVars, recVars, convVars, appVars>>
    \/ UiInteract /\ UNCHANGED <<vadVars, recVars, convVars, appVars>>
    \/ UiClearChat /\ UNCHANGED <<vadVars, recVars, convVars, appVars>>
    \/ UiReturns /\ UNCHANGED <<vadVars, recVars, convVars, appVars>>

GuiSpec == GuiInit /\ [][GuiNext]_vars

(***************************************************************************)
(* Spec: one ConversationManager (the module-level `conversation`,         *)
(* ai_brain.py:225, with its max_history drawn from 0..MaxHistoryCap) and  *)
(* the calls made on it one after the other: add_message,                  *)
(* clear_conversation and get_response.  A call ends in                    *)
(* gr_pc = "done" with its result; Return hands the result to the caller.  *)
(***************************************************************************)
UserTexts == {"hello", " ", "my name is Kwame.", "My Name Is Bob"}
\* the (role, content, emotion) a caller passes add_message; "" is None
AddMessageCalls ==
    {<<"user", "hello", "">>, <<"user", " ", "">>, <<"user", "My Name Is Bob", "">>,
     <<"assistant", "Hello there", "">>, <<"system", "Be brief", "joy">>,
     <<"assistant", "", "">>, <<"system", " \t\n", "joy">>,
     <<"user", "Hi, my name is Kwame.", "">>, <<"user", "my name is ", "">>,
     <<"user", "my name is", "">>}
Payloads == {"Hello there", "[THOUGHTS: be brief][RESPONSE: Hi]", " "}

\* what client.chat.completions.create(...) and response.choices[0].message
\* .content produce, ai_brain.py:283-295
ServiceOutcomes ==
    [kind : {"text"}, text : Payloads, exc : {""}]
      \cup [kind : {"nonstring"}, text : {""}, exc : {""}]
      \cup [kind : {"raise"}, text : {""},
            exc : {"APIError", "JSONDecodeError", "OpenAIError"}]

\* the except clause that catches an exception, ai_brain.py:337-409
HandlerOf(name) ==
    IF name = "APIError" THEN "api"
    ELSE IF name = "JSONDecodeError" THEN "json"
    ELSE IF name = "ValueError" THEN "value"
    ELSE "other"

\* a message saved by an earlier run
SavedMessage ==
    [role |-> "user", content |-> "hello", timestamp |-> -1, emotion |-> "neutral"]

\* a history file left by an earlier run: none, one that loads, one that
\* cannot be opened, and one that json.load rejects (a save that broke off)
SavedFiles ==
    {NoFile,
     [exists |-> TRUE, readable |-> TRUE, parses |-> TRUE, data |-> <<SavedMessage>>],
     [exists |-> TRUE, readable |-> FALSE, parses |-> TRUE, data |-> <<SavedMessage>>],
     [exists |-> TRUE, readable |-> TRUE, parses |-> FALSE, data |-> <<SavedMessage>>]}

\* the file exists, opens and holds JSON
Loads(file) == file.exists /\ file.readable /\ file.parses

\* _initialize_conversation, ai_brain.py:134-163
InitializeConversationUnguarded(m, file) ==
    IF file.exists
    THEN <<SystemMessage>> \o NegSlice(file.data, m * 2)
    ELSE <<SystemMessage>>
InitializeConversation(m, file) ==
    IF Loads(file)
    THEN <<SystemMessage>> \o NegSlice(file.data, m * 2)
    ELSE <<SystemMessage>>

\* ConversationManager.__init__, ai_brain.py:124-132
Init ==
    /\ DetectorInit(FALSE) /\ RecIdle /\ GuiIdle /\ AppIdle
    /\ max_history \in 0..MaxHistoryCap
    /\ history_file \in SavedFiles
    /\ conversation_history = InitializeConversation(max_history, history_file)
    /\ last_interaction_time = 0
    /\ user_name = "User"
    /\ conversation_topics = {}
    /\ user_preferences = {}
    /\ conversation_mood = "neutral"
    /\ thoughts_log = <<>>
    /\ error_log = <<>>
    /\ gr_pc = "idle"
    /\ gr_sentiment = ""
    /\ gr_exc = [handler |-> "", name |-> ""]
    /\ result = NoResult
    /\ locals = NoLocals

\* the manager's fields take the values of the record
SetCM(cm) ==
    /\ conversation_history' = cm.conversation_history
    /\ last_interaction_time' = cm.last_interaction_time
    /\ user_name' = cm.user_name
    /\ conversation_topics' = cm.conversation_topics
    /\ user_preferences' = cm.user_preferences
    /\ conversation_mood' = cm.conversation_mood
    /\ UNCHANGED max_history

\* a caller's conversation.add_message(role, content, emotion), for a call
\* of calls
AddMessageOf(calls) ==
    /\ gr_pc = "idle"
    /\ last_interaction_time < MaxMessages
    /\ \E call \in calls, long_gap \in BOOLEAN :
       \E d \in DrawsFor(call[1]) :
       \E r \in {AddMessageTo(CM, call[1], call[2], call[3], long_gap, d)} :
         /\ SetCM(r.cm)
         /\ result' = [op |-> "add_message",
                       kind |-> IF r.exc = "" THEN "returned" ELSE "raised",
                       value |-> r.exc,
                       dropped |-> IF r.exc = ""
                                      /\ r.cm.last_interaction_time # last_interaction_time
                                      /\ Len(r.cm.conversation_history)
                                           <= Len(conversation_history)
                                   THEN Len(conversation_history) + 1
                                          - Len(r.cm.conversation_history)
                                   ELSE 0]
         /\ locals' = [NoLocals EXCEPT !.args = call]
    /\ gr_pc' = "done"
    /\ UNCHANGED <<history_file, thoughts_log, error_log, gr_sentiment, gr_exc>>

AddMessage == AddMessageOf(AddMessageCalls)

\* open(CONVERSATION_HISTORY_FILE, 'w') and json.dump, ai_brain.py:219-220:
\* the file afterwards; a dump that breaks off leaves a file json.load rejects
WriteFile(file, messages, write) ==
    IF write = "ok"
    THEN [exists |-> TRUE, readable |-> TRUE, parses |-> TRUE, data |-> messages]
    ELSE IF write = "dump fails"
    THEN [exists |-> TRUE, readable |-> TRUE, parses |-> FALSE, data |-> messages]
    ELSE file

\* ConversationManager.save_conversation, ai_brain.py:214-222; the write
\* may fail
SaveConversation ==
    /\ gr_pc = "idle"
    /\ \E write \in {"ok", "open fails", "dump fails"} :
         /\ history_file' = WriteFile(history_file, Tail(conversation_history), write)
         /\ result' = [NoResult EXCEPT
                         !.op = "save_conversation", !.kind = "returned",
                         !.value = IF write = "ok" THEN "saved" ELSE "write failed"]
    /\ gr_pc' = "done"
    /\ UNCHANGED <<cmVars, thoughts_log, error_log, gr_sentiment, gr_exc, locals>>

\* a fresh ConversationManager(m) made by a later run of the program,
\* ai_brain.py:124-132; the clock does not go back
Construct ==
    /\ gr_pc = "idle"
    /\ \E m \in 0..MaxHistoryCap :
         /\ max_history' = m
         /\ conversation_history' = InitializeConversation(m, history_file)
    /\ last_interaction_time' = last_interaction_time
    /\ user_name' = "User"
    /\ conversation_topics' = {}
    /\ user_preferences' = {}
    /\ conversation_mood' = "neutral"
    /\ gr_pc' = "done"
    /\ result' = [NoResult EXCEPT
                    !.op = "construct", !.kind = "returned",
                    !.value = IF Loads(history_file) THEN "loaded"
                              ELSE IF history_file.exists THEN "load failed"
                              ELSE "fresh"]
    /\ UNCHANGED <<history_file, thoughts_log, error_log, gr_sentiment, gr_exc, locals>>

\* an os.remove that leaves the file where it is
RemoveFileNever(file, remove_ok) == file

\* the deletion of the history file, ai_brain.py:436-440; remove_ok says
\* whether os.remove succeeds
RemoveFile(file, remove_ok) ==
    IF file.exists /\ remove_ok THEN NoFile ELSE file

\* a reset that makes the manager what a new one is
ClearedManagerAsNew(cm) ==
    [cm EXCEPT !.conversation_history = SubSeq(@, 1, 1),
               !.user_name = "User",
               !.user_preferences = {},
               !.conversation_topics = {},
               !.conversation_mood = "neutral"]

\* conversation.conversation_history[:1], ai_brain.py:435
ClearedManager(cm) == [cm EXCEPT !.conversation_history = SubSeq(@, 1, 1)]

\* clear_conversation, ai_brain.py:433-440; os.remove may fail
ClearConversation ==
    /\ gr_pc = "idle"
    /\ SetCM(ClearedManager(CM))
    /\ \E remove_ok \in BOOLEAN :
         /\ history_file' = RemoveFile(history_file, remove_ok)
         /\ result' = [NoResult EXCEPT
                         !.op = "clear_conversation", !.kind = "returned",
                         !.value = IF ~history_file.exists THEN "no file"
                                   ELSE IF remove_ok THEN "removed"
                                   ELSE "remove failed"]
    /\ gr_pc' = "done"
    /\ UNCHANGED <<thoughts_log, error_log, gr_sentiment, gr_exc, locals>>

\* ai_response[:-1].strip() when the text ends with ']', ai_brain.py:310-311
DropTrailingBracket(r) ==
    IF EndsWith(r, "]") THEN Strip(SubSeq(r, 1, Len(r) - 1)) ELSE r

\* the THOUGHTS/RESPONSE extraction, ai_brain.py:301-313: [response, thoughts]
ParseReply(ai_response) ==
    IF Contains(ai_response, "[THOUGHTS:") /\ Contains(ai_response, "[RESPONSE:")
    THEN [response |->
              DropTrailingBracket(Strip(SplitOnce(ai_response, "[RESPONSE:")[2])),
          thoughts |->
              Strip(SplitOnce(SplitOnce(ai_response, "[THOUGHTS:")[2], "]")[1])]
    ELSE [response |-> ai_response, thoughts |-> ""]

\* a get_response that appends the user message before it sets the mood
UserTurnAppendsFirst(cm, sentiment, user_text, long_gap) ==
    [AddMessageTo(cm, "user", user_text, "", long_gap, NoDraw)
       EXCEPT !.cm.conversation_mood = sentiment]

\* the mood assignment and the user message, ai_brain.py:255-258
UserTurn(cm, sentiment, user_text, long_gap) ==
    AddMessageTo([cm EXCEPT !.conversation_mood = sentiment],
                 "user", user_text, "", long_gap, NoDraw)

\* get_response(user_text) up to the service call, ai_brain.py:252-258, for a
\* text of texts, while fewer than limit messages were added
GetResponseStartOn(texts, limit) ==
    /\ gr_pc = "idle"
    /\ last_interaction_time < limit
    /\ \E user_text \in texts, long_gap \in BOOLEAN :
       \E sentiment \in {AnalyzeSentiment(user_text)} :
       \E r \in {UserTurn(CM, sentiment, user_text, long_gap)} :
         /\ SetCM(r.cm)
         /\ gr_sentiment' = sentiment
         /\ locals' = [NoLocals EXCEPT !.args = <<user_text>>]
         /\ IF r.exc = ""
            THEN gr_pc' = "call" /\ gr_exc' = gr_exc
            ELSE /\ gr_pc' = "except"
                 /\ gr_exc' = [handler |-> HandlerOf(r.exc), name |-> r.exc]
    /\ thoughts_log' = <<>>
    /\ error_log' = <<>>
    /\ UNCHANGED <<history_file, result>>

\* a get_response call that leaves room for its two messages
GetResponseStart == GetResponseStartOn(UserTexts, MaxMessages - 1)

\* the service call and what follows it, ai_brain.py:260-335, for an outcome
\* of outcomes; the reply comes within the client's timeout, less than an
\* hour after the user message
GetResponseCallOf(outcomes) ==
    /\ gr_pc = "call"
    /\ \E o \in outcomes :
       \E d \in (IF o.kind = "text" THEN Draws ELSE {NoDraw}),
          log_ok \in (IF o.kind = "text" THEN BOOLEAN ELSE {TRUE}) :
         /\ locals' = [locals EXCEPT !.service = o]
         /\ IF o.kind = "raise"
            THEN /\ gr_pc' = "except"
                 /\ gr_exc' = [handler |-> HandlerOf(o.exc), name |-> o.exc]
                 /\ UNCHANGED <<cmVars, thoughts_log, result>>
            ELSE IF o.kind = "nonstring" \/ Strip(o.text) = ""
            THEN /\ gr_pc' = "except"
                 /\ gr_exc' = [handler |-> "value", name |-> "ValueError"]
                 /\ UNCHANGED <<cmVars, thoughts_log, result>>
            ELSE
            \E p \in {ParseReply(o.text)} :
            \E r \in {AddMessageTo(
                        [CM EXCEPT !.conversation_topics =
                           IF Len(conversation_history) > 3
                           THEN @ \cup {Strip(Prefix(p.response, 30))}
                           ELSE @],
                        "assistant", p.response, gr_sentiment, FALSE, d)} :
              /\ thoughts_log' = IF p.thoughts # "" /\ log_ok
                                 THEN Append(thoughts_log, p.thoughts)
                                 ELSE thoughts_log
              /\ SetCM(r.cm)
              /\ IF r.exc = ""
                 THEN /\ gr_pc' = "done"
                      /\ gr_exc' = gr_exc
                      /\ result' = [NoResult EXCEPT !.op = "get_response",
                                                    !.kind = "returned",
                                                    !.value = p.response]
                 ELSE /\ gr_pc' = "except"
                      /\ gr_exc' = [handler |-> HandlerOf(r.exc), name |-> r.exc]
                      /\ result' = result
    /\ UNCHANGED <<history_file, error_log, gr_sentiment>>

GetResponseCall == GetResponseCallOf(ServiceOutcomes)

\* error_type of the except clauses, ai_brain.py:339, 363, 387, 411
ErrorType(e) ==
    IF e.handler = "api" THEN "API Error"
    ELSE IF e.handler = "json" THEN "JSON Decode Error"
    ELSE IF e.handler = "value" THEN "Value Error"
    ELSE e.name

\* error_msg of the except clauses, ai_brain.py:340, 364, 388, 412
ErrorMsg(e, pick) ==
    IF e.handler = "api"
    THEN "I'm having trouble connecting to the AI service. "
           \o GetRandomEmotion("sad", pick) \o " Let's try again in a moment."
    ELSE IF e.handler = "json"
    THEN "I had trouble understanding the response. "
           \o GetRandomEmotion("confused", pick) \o " Could you rephrase that?"
    ELSE IF e.handler = "value"
    THEN "I received an unexpected response format. "
           \o GetRandomEmotion("confused", pick) \o " Let me try that again."
    ELSE "Hmm, something unexpected happened (" \o e.name \o "). "
           \o GetRandomEmotion("thinking", pick) \o " Let's try that again."

\* the emotion the except clause hands humanize_text, ai_brain.py:359, 383, 407, 431
ErrorTone(e) ==
    IF e.handler = "api" THEN "concerned"
    ELSE IF e.handler \in {"json", "value"} THEN "confused"
    ELSE "thinking"

\* the except clauses of get_response, ai_brain.py:337-431 (the record's
\* wall-clock timestamp is left out)
GetResponseExcept ==
    /\ gr_pc = "except"
    /\ \E pick \in 1..MaxChoice, d \in Draws, log_ok \in BOOLEAN :
       \E h \in {HumanizeText(ErrorMsg(gr_exc, pick), ErrorTone(gr_exc), d)} :
         /\ error_log' =
              IF log_ok
              THEN Append(error_log,
                     [error_type |-> ErrorType(gr_exc),
                      error_message |-> gr_exc.name,
                      last_user_message |->
                          conversation_history[Len(conversation_history)].content,
                      conversation_length |-> Len(conversation_history)])
              ELSE error_log
         /\ result' = [NoResult EXCEPT
                         !.op = "get_response",
                         !.kind = IF h.exc = "" THEN "returned" ELSE "raised",
                         !.value = IF h.exc = "" THEN h.text ELSE h.exc]
    /\ gr_pc' = "done"
    /\ UNCHANGED <<cmVars, history_file, thoughts_log, gr_sentiment, gr_exc, locals>>

\* the finished call hands its result (or its exception) to the caller; the
\* log files are append-only and never read, so what they hold from earlier
\* calls is not kept
Return ==
    /\ gr_pc = "done"
    /\ gr_pc' = "idle"
    /\ result' = NoResult
    /\ locals' = NoLocals
    /\ gr_sentiment' = ""
    /\ gr_exc' = [handler |-> "", name |-> ""]
    /\ thoughts_log' = <<>>
    /\ error_log' = <<>>
    /\ UNCHANGED <<cmVars, history_file>>

Next ==
    \/ AddMessage /\ UNCHANGED <<vadVars, recVars, guiVars, appVars>>
    \/ ClearConversation /\ UNCHANGED <<vadVars, recVars, guiVars, appVars>>
    \/ GetResponseStart /\ UNCHANGED <<vadVars, recVars, guiVars, appVars>>
    \/ GetResponseCall /\ UNCHANGED <<vadVars, recVars, guiVars, appVars>>
    \/ GetResponseExcept /\ UNCHANGED <<vadVars, recVars, guiVars, appVars>>
    \/ Return /\ UNCHANGED <<vadVars, recVars, guiVars, appVars>>

\* the manager of a run that found no history file, or one that loads
LoadedInit == Init /\ (history_file = NoFile \/ Loads(history_file))

Spec == LoadedInit /\ [][Next]_vars

(***************************************************************************)
(* MessageSpec: add_message for each role, with and without the thought    *)
(* marker, against clear_conversation.                                     *)
(***************************************************************************)
MessageCalls ==
    {<<"user", "Hello there", "">>, <<"system", " Be brief ", "joy">>,
     <<"assistant", "Hello there", "">>, <<"assistant", "[THOUGHTS: plan] Hi", "">>,
     <<"assistant", "hello [THOUGHTS: plan]", "calm">>}

MessageNext ==
    \/ AddMessageOf(MessageCalls) /\ UNCHANGED <<vadVars, recVars, guiVars, appVars>>
    \/ ClearConversation /\ UNCHANGED <<vadVars, recVars, guiVars, appVars>>
    \/ Return /\ UNCHANGED <<vadVars, recVars, guiVars, appVars>>

MessageSpec == LoadedInit /\ [][MessageNext]_vars

(***************************************************************************)
(* DialogueSpec: get_response called again and again on a manager of the   *)
(* largest capacity that found no saved history, with texts of every mood. *)
(***************************************************************************)
DialogueTexts == {"hello", " ", "I love this great day", "so sad and angry"}

DialogueInit == Init /\ history_file = NoFile /\ max_history = MaxHistoryCap

DialogueStart == GetResponseStartOn(DialogueTexts, MaxMessages)

DialogueNext ==
    \/ DialogueStart /\ UNCHANGED <<vadVars, recVars, guiVars, appVars>>
    \/ GetResponseCall /\ UNCHANGED <<vadVars, recVars, guiVars, appVars>>
    \/ GetResponseExcept /\ UNCHANGED <<vadVars, recVars, guiVars, appVars>>
    \/ Return /\ UNCHANGED <<vadVars, recVars, guiVars, appVars>>

DialogueSpec == DialogueInit /\ [][DialogueNext]_vars

(***************************************************************************)
(* ThoughtsSpec: get_response on completions that hold both markers, in    *)
(* either order and with brackets inside the thought.                      *)
(***************************************************************************)
MarkedPayloads ==
    {"[THOUGHTS: be brief][RESPONSE: Hi]", "[RESPONSE: Hi][THOUGHTS: be brief]",
     "[THOUGHTS: be [very] brief][RESPONSE: Hi]", "[THOUGHTS: be brief [RESPONSE: Hi]]",
     "[THOUGHTS: be brief] [RESPONSE: Hi there] "}

ThoughtsNext ==
    \/ GetResponseStartOn({"hello", " "}, MaxMessages)
         /\ UNCHANGED <<vadVars, recVars, guiVars, appVars>>
    \/ GetResponseCallOf([kind : {"text"}, text : MarkedPayloads, exc : {""}])
         /\ UNCHANGED <<vadVars, recVars, guiVars, appVars>>
    \/ GetResponseExcept /\ UNCHANGED <<vadVars, recVars, guiVars, appVars>>
    \/ Return /\ UNCHANGED <<vadVars, recVars, guiVars, appVars>>

ThoughtsSpec == DialogueInit /\ [][ThoughtsNext]_vars

(***************************************************************************)
(* PersistSpec: the manager across runs of the program: messages are       *)
(* added, the history is saved, cleared, and loaded again by a fresh       *)
(* ConversationManager.                                                    *)
(***************************************************************************)
PersistNext ==
    \/ AddMessage /\ UNCHANGED <<vadVars, recVars, guiVars, appVars>>
    \/ SaveConversation /\ UNCHANGED <<vadVars, recVars, guiVars, appVars>>
    \/ Construct /\ UNCHANGED <<vadVars, recVars, guiVars, appVars>>
    \/ ClearConversation /\ UNCHANGED <<vadVars, recVars, guiVars, appVars>>
    \/ Return /\ UNCHANGED <<vadVars, recVars, guiVars, appVars>>

\* the manager of a run that found no history file, one that loads, or one
\* that cannot be opened; a file json.load rejects comes from a save that
\* broke off
PersistInit == Init /\ (history_file.parses \/ history_file = NoFile)

PersistSpec == PersistInit /\ [][PersistNext]_vars

(***************************************************************************)
(* SentimentSpec: _analyze_sentiment called on texts of up to MaxWords     *)
(* words.                                                                  *)
(***************************************************************************)
Vocabulary == {"happy", "Great", "LOVE", "sad", "Awful", "sad,", "ok"}

\* the words of ws with one space between them
RECURSIVE Join(_)
Join(ws) ==
    IF Len(ws) = 0 THEN ""
    ELSE IF Len(ws) = 1 THEN ws[1]
    ELSE ws[1] \o " " \o Join(Tail(ws))

SentimentTexts ==
    {Join(ws) : ws \in UNION {[1..n -> Vocabulary] : n \in 0..MaxWords}}

SentimentInit == DetectorInit(FALSE) /\ RecIdle /\ GuiIdle /\ ConvIdle /\ AppIdle

\* the call _analyze_sentiment(text), ai_brain.py:253; the text and the
\* value returned are kept
AnalyzeSentimentCall ==
    /\ locals = NoLocals
    /\ \E text \in SentimentTexts :
         /\ locals' = [NoLocals EXCEPT !.args = <<text>>]
         /\ gr_sentiment' = AnalyzeSentiment(text)
    /\ UNCHANGED <<cmVars, history_file, thoughts_log, error_log, gr_pc, gr_exc,
                   result>>

SentimentNext == AnalyzeSentimentCall /\ UNCHANGED <<vadVars, recVars, guiVars, appVars>>

SentimentSpec == SentimentInit /\ [][SentimentNext]_vars

(***************************************************************************)
(* voice_responses.py, voice_manager.py, text_to_speech.py: the catalog    *)
(* of recorded responses, the voice manager and speak's fallback chain.    *)
(***************************************************************************)
\* VoiceResponses.categories flattened in the order find_matching_response
\* walks it, voice_responses.py:13-24, 81-178
Catalog ==
    <<[file |-> "wav/anglo_intro_001.wav", text |-> "Hello, I'm Edward, your personal assistant."],
      [file |-> "wav/anglo_intro_002.wav", text |-> "I'm here to help you with your daily tasks, planning, and questions."],
      [file |-> "wav/anglo_intro_003.wav", text |-> "How can I help you today?"],
      [file |-> "wav/anglo_greeting_001.wav", text |-> "Hello."],
      [file |-> "wav/anglo_greeting_002.wav", text |-> "Hi there."],
      [file |-> "wav/anglo_greeting_003.wav", text |-> "Good morning."],
      [file |-> "wav/anglo_greeting_004.wav", text |-> "Good afternoon."],
      [file |-> "wav/anglo_greeting_005.wav", text |-> "Good evening."],
      [file |-> "wav/anglo_confirm_001.wav", text |-> "Okay."],
      [file |-> "wav/anglo_confirm_002.wav", text |-> "Sure."],
      [file |-> "wav/anglo_confirm_003.wav", text |-> "No problem."],
      [file |-> "wav/anglo_confirm_004.wav", text |-> "I understand."],
      [file |-> "wav/anglo_confirm_005.wav", text |-> "Got it."],
      [file |-> "wav/anglo_confirm_006.wav", text |-> "That's fine."],
      [file |-> "wav/anglo_assist_001.wav", text |-> "How can I help you?"],
      [file |-> "wav/anglo_assist_002.wav", text |-> "What would you like me to do?"],
      [file |-> "wav/anglo_assist_003.wav", text |-> "I'm here to assist you."],
      [file |-> "wav/anglo_assist_004.wav", text |-> "Let me know what you need."],
      [file |-> "wav/anglo_clarify_001.wav", text |-> "I need a bit more information."],
      [file |-> "wav/anglo_clarify_002.wav", text |-> "Could you please explain that again?"],
      [file |-> "wav/anglo_clarify_003.wav", text |-> "I didn't fully understand."],
      [file |-> "wav/anglo_clarify_004.wav", text |-> "Let me try again in a simpler way."],
      [file |-> "wav/anglo_task_001.wav", text |-> "I can help you plan your day."],
      [file |-> "wav/anglo_task_002.wav", text |-> "Let's do this step by step."],
      [file |-> "wav/anglo_task_003.wav", text |-> "You can start with your most important task."],
      [file |-> "wav/anglo_task_004.wav", text |-> "Take a short break and continue later."],
      [file |-> "wav/anglo_motivation_001.wav", text |-> "You're doing well."],
      [file |-> "wav/anglo_motivation_002.wav", text |-> "Keep going, you're making progress."],
      [file |-> "wav/anglo_motivation_003.wav", text |-> "Every small effort matters."],
      [file |-> "wav/anglo_motivation_004.wav", text |-> "Stay consistent and focused."],
      [file |-> "wav/anglo_safety_001.wav", text |-> "I can't help with that."],
      [file |-> "wav/anglo_safety_002.wav", text |-> "That's not something I'm allowed to do."],
      [file |-> "wav/anglo_safety_003.wav", text |-> "I can help in a safe and legal way."],
      [file |-> "wav/anglo_emotion_calm_001.wav", text |-> "Everything is under control. Let's take it one step at a time."],
      [file |-> "wav/anglo_emotion_friendly_001.wav", text |-> "That's a great question. I'm happy to help you with that."],
      [file |-> "wav/anglo_emotion_serious_001.wav", text |-> "Please be careful. This is important and needs attention."],
      [file |-> "wav/anglo_outro_001.wav", text |-> "You're welcome."],
      [file |-> "wav/anglo_outro_002.wav", text |-> "Anytime."],
      [file |-> "wav/anglo_outro_003.wav", text |-> "Goodbye."],
      [file |-> "wav/anglo_outro_004.wav", text |-> "Take care."]>>

\* the catalog texts lower-cased, as find_matching_response compares them
CatalogLower == [i \in 1..Len(Catalog) |-> Lower(Catalog[i].text)]

\* no response: None
NoResponse == [file |-> "", text |-> ""]

\* find_matching_response, voice_responses.py:58-79: the first catalog entry
\* whose text contains the given text, both lower-cased
FindMatchingResponse(text) ==
    LET hits == {i \in 1..Len(Catalog) : Contains(CatalogLower[i], Lower(text))}
    IN  IF hits = {} THEN NoResponse
        ELSE Catalog[CHOOSE i \in hits : \A j \in hits : i <= j]

\* the texts speak is called with in the specifications below
SpokenTexts == {"hello", "Good Morning", "", " ", "What is the weather like?"}
ReplyTexts ==
    {"Hello there", "I'm having trouble connecting to the AI service.",
     "Hmm, something unexpected happened (OpenAIError)."}

\* find_matching_response on those texts, computed once
MatchTable == [t \in SpokenTexts \cup ReplyTexts |-> FindMatchingResponse(t)]
MatchOf(text) ==
    IF text \in DOMAIN MatchTable THEN MatchTable[text] ELSE FindMatchingResponse(text)

\* get_emotion_response, voice_responses.py:43-56: each emotion list holds
\* one entry
GetEmotionResponse(emotion_type) ==
    IF emotion_type = "calm" THEN Catalog[34]
    ELSE IF emotion_type = "friendly" THEN Catalog[35]
    ELSE IF emotion_type = "serious" THEN Catalog[36]
    ELSE NoResponse

\* config.VOICE_NAME, config.py:45
VOICE_NAME == "Adam"

\* add_fallback_voices, voice_manager.py:60-78
FallbackVoices ==
    <<[name |-> "Adam", voice_id |-> "fallback-adam"],
      [name |-> "Alice", voice_id |-> "fallback-alice"],
      [name |-> "Sam", voice_id |-> "fallback-sam"],
      [name |-> "Default", voice_id |-> "fallback-default"]>>

\* what client.voices.get_all() can answer: it raises, or lists the account's
\* voices
ProviderAnswers ==
    {[kind |-> "raise", voices |-> <<>>],
     [kind |-> "list", voices |-> <<>>],
     [kind |-> "list", voices |-> <<[name |-> "Rachel", voice_id |-> "21m00Tcm"]>>],
     [kind |-> "list", voices |-> <<[name |-> "Adam", voice_id |-> "pNInz6ob"],
                                    [name |-> "Rachel", voice_id |-> "21m00Tcm"]>>]}

\* load_voices, voice_manager.py:44-58: the value self.voices gets
LoadVoices(client, answer) ==
    IF ~client THEN <<>>
    ELSE IF answer.kind = "raise" THEN <<>>
    ELSE answer.voices

\* VoiceManager.__init__, voice_manager.py:14-42: [client, voices]
VoiceManagerInit(key, client_ok, answer) ==
    [client |-> key /\ client_ok,
     voices |-> IF LoadVoices(key /\ client_ok, answer) = <<>>
                THEN FallbackVoices
                ELSE LoadVoices(key /\ client_ok, answer)]

\* the voice of that name in self.voices, 0 when there is none
VoiceIndex(vs, name) ==
    IF \E i \in 1..Len(vs) : vs[i].name = name
    THEN CHOOSE i \in 1..Len(vs) : vs[i].name = name
    ELSE 0

\* what the environment does to one speak call: whether playing the recorded
\* file works, whether the provider synthesises, and what the local engine
\* does ("ok", "missing": pyttsx3 is not installed, "fail")
SpeakOutcomes == [play : BOOLEAN, generate : BOOLEAN, local : {"ok", "missing", "fail"}]

\* fallback_tts, voice_manager.py:155-205: [steps, audio]
FallbackTts(o) == [steps |-> <<"local">>, audio |-> o.local = "ok"]

\* VoiceManager.text_to_speech, voice_manager.py:90-153: [steps, audio], audio
\* false for None
TextToSpeechWith(text, i, client, vs, o) ==
    IF Strip(text) = "" THEN [steps |-> <<>>, audio |-> FALSE]
    ELSE IF i = 0 /\ Len(vs) = 0 THEN [steps |-> <<>>, audio |-> FALSE]
    ELSE IF StartsWith(vs[IF i = 0 THEN 1 ELSE i].voice_id, "fallback-")
    THEN FallbackTts(o)
    ELSE IF ~client THEN FallbackTts(o)
    ELSE [steps |-> <<"provider">>, audio |-> o.generate]
TextToSpeech(text, voice_name, client, vs, o) ==
    TextToSpeechWith(text, VoiceIndex(vs, voice_name), client, vs, o)

\* _tts_speak, text_to_speech.py:104-122: [steps, value]
TtsSpeakFrom(enabled, made) ==
    IF ~enabled THEN [steps |-> <<>>, value |-> FALSE]
    ELSE [steps |-> made.steps, value |-> made.audio]
TtsSpeak(text, enabled, client, vs, o) ==
    TtsSpeakFrom(enabled, TextToSpeech(text, VOICE_NAME, client, vs, o))

\* the recorded response speak settles on, text_to_speech.py:80-85:
\* [steps, response]
PickResponseFrom(match, emotion) ==
    IF match # NoResponse
    THEN [steps |-> <<"catalog">>, response |-> match]
    ELSE IF emotion # "neutral"
    THEN [steps |-> <<"catalog", "emotion">>, response |-> GetEmotionResponse(emotion)]
    ELSE [steps |-> <<"catalog">>, response |-> NoResponse]
PickResponse(text, emotion) == PickResponseFrom(MatchOf(text), emotion)

\* speak, text_to_speech.py:64-102: [steps, value]
SpeakFrom(picked, use_tts_fallback, tts, o) ==
    IF picked.response # NoResponse
    THEN [steps |-> picked.steps \o <<"play">>, value |-> o.play]
    ELSE IF ~use_tts_fallback
    THEN [steps |-> picked.steps, value |-> FALSE]
    ELSE [steps |-> picked.steps \o tts.steps, value |-> tts.value]
Speak(text, emotion, use_tts_fallback, enabled, client, vs, o) ==
    SpeakFrom(PickResponse(text, emotion), use_tts_fallback,
              TtsSpeak(text, enabled, client, vs, o), o)

(***************************************************************************)
(* speech_to_text.py                                                       *)
(***************************************************************************)
\* the audio file handed to speech_to_text: os.path.exists and os.access
AudioFiles ==
    {[exists |-> FALSE, readable |-> FALSE], [exists |-> TRUE, readable |-> FALSE],
     [exists |-> TRUE, readable |-> TRUE]}

\* what the try block of speech_to_text meets, speech_to_text.py:34-40: the
\* file cannot be opened, the provider raises, or a transcript comes back
TranscriptionOutcomes ==
    {[kind |-> "open_fails", text |-> ""],
     [kind |-> "raise", text |-> "OpenAIError"],
     [kind |-> "raise", text |-> "TimeoutError"],
     [kind |-> "text", text |-> "hello"],
     [kind |-> "text", text |-> ""]}

\* speech_to_text, speech_to_text.py:10-45: [steps, kind, value]
SpeechToTextSwallows(file, key, o) ==
    IF ~file.exists
    THEN [steps |-> <<"exists">>, kind |-> "raised", value |-> "FileNotFoundError"]
    ELSE IF ~file.readable
    THEN [steps |-> <<"exists", "access">>, kind |-> "raised",
          value |-> "PermissionError"]
    ELSE IF ~key
    THEN [steps |-> <<"exists", "access", "credential">>, kind |-> "raised",
          value |-> "ConfigError"]
    ELSE IF o.kind = "open_fails"
    THEN [steps |-> <<"exists", "access", "credential">>, kind |-> "raised",
          value |-> "SpeechRecognitionError"]
    ELSE IF o.kind = "raise"
    THEN [steps |-> <<"exists", "access", "credential", "transcription">>,
          kind |-> "returned", value |-> ""]
    ELSE [steps |-> <<"exists", "access", "credential", "transcription">>,
          kind |-> "returned", value |-> o.text]
SpeechToText(file, key, o) ==
    IF ~file.exists
    THEN [steps |-> <<"exists">>, kind |-> "raised", value |-> "FileNotFoundError"]
    ELSE IF ~file.readable
    THEN [steps |-> <<"exists", "access">>, kind |-> "raised",
          value |-> "PermissionError"]
    ELSE IF ~key
    THEN [steps |-> <<"exists", "access", "credential">>, kind |-> "raised",
          value |-> "ConfigError"]
    ELSE IF o.kind = "open_fails"
    THEN [steps |-> <<"exists", "access", "credential">>, kind |-> "raised",
          value |-> "SpeechRecognitionError"]
    ELSE IF o.kind = "raise"
    THEN [steps |-> <<"exists", "access", "credential", "transcription">>,
          kind |-> "raised", value |-> "SpeechRecognitionError"]
    ELSE [steps |-> <<"exists", "access", "credential", "transcription">>,
          kind |-> "returned", value |-> o.text]

(***************************************************************************)
(* AppSpec: the program started as `python main.py` (main.py:15-28,        *)
(* gui.main) or as `python config.py` (config.py:67-74), and the handlers  *)
(* of the running window.                                                  *)
(***************************************************************************)
Envs == [OPENAI_API_KEY : BOOLEAN, ELEVENLABS_API_KEY : BOOLEAN]

\* what importing the modules meets: whether the elevenlabs package imports,
\* whether ElevenLabs(api_key=...) constructs, what voices.get_all() answers
\* the voice manager, and whether it answers text_to_speech
ImportOutcomes ==
    [package : BOOLEAN, client_ok : BOOLEAN, answer : ProviderAnswers,
     enabled_ok : BOOLEAN]

\* the module-level code of voice_manager.py:283-284 and of
\* text_to_speech.py:27-62: [enabled, client, voices, steps]
ImportModules(e, o) ==
    [enabled |-> e.ELEVENLABS_API_KEY /\ o.client_ok /\ o.enabled_ok,
     client |-> VoiceManagerInit(e.ELEVENLABS_API_KEY, o.client_ok, o.answer).client,
     voices |-> VoiceManagerInit(e.ELEVENLABS_API_KEY, o.client_ok, o.answer).voices,
     steps |-> IF e.ELEVENLABS_API_KEY /\ o.client_ok
               THEN <<"provider", "provider">> ELSE <<>>]

AppInit ==
    /\ DetectorInit(FALSE) /\ RecIdle /\ GuiIdle /\ ConvIdle
    /\ env \in Envs
    /\ AppOff

\* validate_required_vars, config.py:25-34: the missing variables
MissingVars(e) ==
    {v \in {"OPENAI_API_KEY", "ELEVENLABS_API_KEY"} : ~e[v]}

\* python config.py, config.py:67-74 and 76-93
ConfigMain ==
    /\ app_pc = "off"
    /\ IF MissingVars(env) # {}
       THEN /\ app_pc' = "aborted"
            /\ outcome' = [op |-> "config", kind |-> "raised", value |-> "ConfigError"]
            /\ UNCHANGED validated
       ELSE /\ app_pc' = "exited"
            /\ outcome' = [op |-> "config", kind |-> "returned", value |-> "0"]
            /\ validated' = TRUE
    /\ UNCHANGED <<last_call, env, ELEVENLABS_ENABLED, vm_client, voices, trace>>

\* python main.py, main.py:15-28: import gui, then gui.main() up to the
\* event loop, gui.py:339-363
Main ==
    /\ app_pc = "off"
    /\ \E o \in ImportOutcomes, ui_ok \in BOOLEAN :
         IF ~o.package
         THEN /\ app_pc' = "exited"
              /\ outcome' = [op |-> "main", kind |-> "returned", value |-> "1"]
              /\ UNCHANGED <<ELEVENLABS_ENABLED, vm_client, voices, trace>>
         ELSE /\ ELEVENLABS_ENABLED' = ImportModules(env, o).enabled
              /\ vm_client' = ImportModules(env, o).client
              /\ voices' = ImportModules(env, o).voices
              /\ trace' = ImportModules(env, o).steps
              /\ app_pc' = IF ui_ok THEN "running" ELSE "exited"
              /\ outcome' = [op |-> "main", kind |-> IF ui_ok THEN "none" ELSE "returned",
                             value |-> IF ui_ok THEN "" ELSE "1"]
    /\ UNCHANGED <<last_call, env, validated>>

\* what a get_response call does as seen from its caller, ai_brain.py:242-431:
\* the conversation logic runs (252-281), the completion service is called
\* unless the client cannot be built (283-290), and the call returns a reply
\* or an apology, or raises
GetResponseOutcomes ==
    {[steps |-> <<"conversation", "completion">>, kind |-> "returned", value |-> "Hello there"],
     [steps |-> <<"conversation", "completion">>, kind |-> "returned",
      value |-> "I'm having trouble connecting to the AI service."],
     [steps |-> <<"conversation">>, kind |-> "returned",
      value |-> "Hmm, something unexpected happened (OpenAIError)."],
     [steps |-> <<"conversation", "completion">>, kind |-> "raised", value |-> "KeyError"],
     [steps |-> <<"conversation">>, kind |-> "raised", value |-> "KeyError"]}

\* the text typed into the entry box
EntryTexts == {"", "hello", "What is an operating system?"}

\* speak(response) as interact and _process_voice_thread call it,
\* gui.py:125, 309: the steps it goes through
SpeakResponse(picked, text, o) ==
    SpeakFrom(picked, TRUE, TtsSpeak(text, ELEVENLABS_ENABLED, vm_client, voices, o), o)

\* interact, gui.py:289-319
Interact ==
    /\ app_pc = "running"
    /\ \E text \in EntryTexts :
         IF Strip(text) = ""
         THEN /\ trace' = <<>>
              /\ outcome' = [op |-> "interact", kind |-> "returned", value |-> ""]
         ELSE \E g \in GetResponseOutcomes :
              IF g.kind = "raised"
              THEN /\ trace' = g.steps
                   /\ outcome' = [op |-> "interact", kind |-> "returned",
                                  value |-> g.value]
              ELSE \E picked \in {PickResponse(g.value, "neutral")} :
                   \E o \in SpeakOutcomes :
                     /\ trace' = g.steps \o SpeakResponse(picked, g.value, o).steps
                     /\ outcome' = [op |-> "interact", kind |-> "returned",
                                    value |-> g.value]
    /\ UNCHANGED <<last_call, env, app_pc, validated, ELEVENLABS_ENABLED, vm_client, voices>>

\* _process_voice_thread, gui.py:103-158, from start to end
VoiceTurn ==
    /\ app_pc = "running"
    /\ \E recorded \in BOOLEAN :
         IF ~recorded
         THEN /\ trace' = <<>>
              /\ outcome' = [op |-> "voice", kind |-> "returned",
                             value |-> "No audio recorded"]
         ELSE \E t \in TranscriptionOutcomes :
              \E st \in {SpeechToText([exists |-> TRUE, readable |-> TRUE],
                                      env.OPENAI_API_KEY, t)} :
              IF st.kind = "raised" \/ st.value = ""
              THEN /\ trace' = st.steps
                   /\ outcome' = [op |-> "voice", kind |-> "returned",
                                  value |-> st.value]
              ELSE \E g \in GetResponseOutcomes :
                   IF g.kind = "raised"
                   THEN /\ trace' = st.steps \o g.steps
                        /\ outcome' = [op |-> "voice", kind |-> "returned",
                                       value |-> g.value]
                   ELSE \E picked \in {PickResponse(g.value, "neutral")} :
                        \E o \in SpeakOutcomes :
                          /\ trace' = st.steps \o g.steps
                                        \o SpeakResponse(picked, g.value, o).steps
                          /\ outcome' = [op |-> "voice", kind |-> "returned",
                                         value |-> g.value]
    /\ UNCHANGED <<last_call, env, app_pc, validated, ELEVENLABS_ENABLED, vm_client, voices>>

\* clear_chat, gui.py:71-83, the question answered with yes
ClearChat ==
    /\ app_pc = "running"
    /\ trace' = <<"conversation">>
    /\ outcome' = [op |-> "clear_chat", kind |-> "returned", value |-> ""]
    /\ UNCHANGED <<last_call, env, app_pc, validated, ELEVENLABS_ENABLED, vm_client, voices>>

\* on_closing answered with ok, gui.py:321-329: mainloop ends and main returns 0
Quit ==
    /\ app_pc = "running"
    /\ app_pc' = "exited"
    /\ outcome' = [op |-> "main", kind |-> "returned", value |-> "0"]
    /\ UNCHANGED <<last_call, env, validated, ELEVENLABS_ENABLED, vm_client, voices, trace>>

AppNext ==
    \/ ConfigMain /\ UNCHANGED <<vadVars, recVars, guiVars, convVars>>
    \/ Main /\ UNCHANGED <<vadVars, recVars, guiVars, convVars>>
    \/ Interact /\ UNCHANGED <<vadVars, recVars, guiVars, convVars>>
    \/ VoiceTurn /\ UNCHANGED <<vadVars, recVars, guiVars, convVars>>
    \/ ClearChat /\ UNCHANGED <<vadVars, recVars, guiVars, convVars>>
    \/ Quit /\ UNCHANGED <<vadVars, recVars, guiVars, convVars>>

AppSpec == AppInit /\ [][AppNext]_vars

(***************************************************************************)
(* SpeechSpec: the speech modules imported by a caller that then calls     *)
(* speak, speech_to_text and the voice manager's methods one after the     *)
(* other.                                                                  *)
(***************************************************************************)
Emotions == {"neutral", "calm", "happy"}
VoiceNames == {"", "Adam", "Rachel", "Nobody"}

SpeechInit ==
    /\ DetectorInit(FALSE) /\ RecIdle /\ GuiIdle /\ ConvIdle
    /\ env \in Envs
    /\ app_pc = "off"
    /\ validated = FALSE
    /\ \E o \in ImportOutcomes :
         /\ o.package
         /\ ELEVENLABS_ENABLED = ImportModules(env, o).enabled
         /\ vm_client = ImportModules(env, o).client
         /\ voices = ImportModules(env, o).voices
    /\ last_call = <<>>
    /\ trace = <<>>
    /\ outcome = NoOutcome

\* True / False / None as the caller sees them
Py(b) == IF b THEN "True" ELSE "False"

\* a call speak(text, emotion=..., use_tts_fallback=...)
SpeakCall ==
    /\ \E text \in SpokenTexts, emotion \in Emotions, use_tts_fallback \in BOOLEAN :
       \E picked \in {PickResponse(text, emotion)} :
       \E o \in SpeakOutcomes :
       \E sp \in {SpeakFrom(picked, use_tts_fallback,
                            TtsSpeak(text, ELEVENLABS_ENABLED, vm_client, voices, o),
                            o)} :
         /\ last_call' = <<"speak", text, emotion, use_tts_fallback>>
         /\ trace' = sp.steps
         /\ outcome' = [op |-> "speak", kind |-> "returned", value |-> Py(sp.value)]
    /\ UNCHANGED <<env, app_pc, validated, ELEVENLABS_ENABLED, vm_client, voices>>

\* a call speech_to_text(audio_file)
SpeechToTextCall ==
    /\ \E file \in AudioFiles, t \in TranscriptionOutcomes :
       \E st \in {SpeechToText(file, env.OPENAI_API_KEY, t)} :
         /\ last_call' = <<"speech_to_text", file, t>>
         /\ trace' = st.steps
         /\ outcome' = [op |-> "speech_to_text", kind |-> st.kind, value |-> st.value]
    /\ UNCHANGED <<env, app_pc, validated, ELEVENLABS_ENABLED, vm_client, voices>>

\* a call voice_manager.load_voices()
LoadVoicesCall ==
    /\ \E answer \in ProviderAnswers :
         /\ voices' = LoadVoices(vm_client, answer)
         /\ last_call' = <<"load_voices">>
         /\ trace' = IF vm_client THEN <<"provider">> ELSE <<>>
         /\ outcome' = [op |-> "load_voices", kind |-> "returned", value |-> "None"]
    /\ UNCHANGED <<env, app_pc, validated, ELEVENLABS_ENABLED, vm_client>>

\* a call voice_manager.clone_voice(name, description, audio_files),
\* voice_manager.py:251-281
CloneVoiceCall ==
    /\ \E files_exist \in BOOLEAN, cloned \in BOOLEAN, answer \in ProviderAnswers :
         /\ last_call' = <<"clone_voice", files_exist>>
         /\ IF ~files_exist
            THEN /\ trace' = <<>>
                 /\ outcome' = [op |-> "clone_voice", kind |-> "returned",
                                value |-> "False"]
                 /\ UNCHANGED voices
            ELSE IF ~cloned
            THEN /\ trace' = <<"provider">>
                 /\ outcome' = [op |-> "clone_voice", kind |-> "returned",
                                value |-> "False"]
                 /\ UNCHANGED voices
            ELSE /\ trace' = IF vm_client THEN <<"provider", "provider">>
                             ELSE <<"provider">>
                 /\ voices' = LoadVoices(vm_client, answer)
                 /\ outcome' = [op |-> "clone_voice", kind |-> "returned",
                                value |-> "True"]
    /\ UNCHANGED <<env, app_pc, validated, ELEVENLABS_ENABLED, vm_client>>

\* a call voice_manager.text_to_speech(text, voice_name); an empty name
\* stands for None, and current_voice is VOICE_NAME (voice_manager.py:23, 110)
TextToSpeechCall ==
    /\ \E text \in SpokenTexts, voice_name \in VoiceNames, o \in SpeakOutcomes :
       \E made \in {TextToSpeech(text, IF voice_name = "" THEN VOICE_NAME
                                       ELSE voice_name,
                                 vm_client, voices, o)} :
         /\ last_call' = <<"text_to_speech", text, voice_name>>
         /\ trace' = made.steps
         /\ outcome' = [op |-> "text_to_speech", kind |-> "returned",
                        value |-> IF made.audio THEN "audio" ELSE "None"]
    /\ UNCHANGED <<env, app_pc, validated, ELEVENLABS_ENABLED, vm_client, voices>>

SpeechNext ==
    \/ SpeakCall /\ UNCHANGED <<vadVars, recVars, guiVars, convVars>>
    \/ SpeechToTextCall /\ UNCHANGED <<vadVars, recVars, guiVars, convVars>>
    \/ LoadVoicesCall /\ UNCHANGED <<vadVars, recVars, guiVars, convVars>>
    \/ CloneVoiceCall /\ UNCHANGED <<vadVars, recVars, guiVars, convVars>>
    \/ TextToSpeechCall /\ UNCHANGED <<vadVars, recVars, guiVars, convVars>>

SpeechSpec == SpeechInit /\ [][SpeechNext]_vars

(***************************************************************************)
(* EmotionSpec: get_random_emotion called with the keys the program and    *)
(* its tests use, and with every draw random.choice can make.              *)
(***************************************************************************)
\* the configured emotions, their capitalised spellings, and the keys the
\* callers pass: ai_brain.py:117 (a mood such as 'concerned'), 340-412,
\* test_simple.py:51 and test_comprehensive.py:18-22
EmotionKeys ==
    {HUMAN_TRAITS["EMOTIONS"][i] : i \in 1..Len(HUMAN_TRAITS["EMOTIONS"])}
      \cup {Capitalize(HUMAN_TRAITS["EMOTIONS"][i]) :
              i \in 1..Len(HUMAN_TRAITS["EMOTIONS"])}
      \cup {"sad", "confused", "thinking", "concerned", "happy", "invalid",
            "nonexistent", ""}

EmotionInit == DetectorInit(FALSE) /\ RecIdle /\ GuiIdle /\ ConvIdle /\ AppIdle

\* a call get_random_emotion(key): HUMAN_TRAITS['EMOTIONS'] raises KeyError
\* without the key, random.choice raises IndexError on an empty list
GetRandomEmotionCall ==
    /\ \E key \in EmotionKeys, pick \in 1..Len(HUMAN_TRAITS["EMOTIONS"]) :
         /\ last_call' = <<"get_random_emotion", key>>
         /\ outcome' =
              IF ~HasTrait("EMOTIONS")
              THEN [op |-> "get_random_emotion", kind |-> "raised", value |-> "KeyError"]
              ELSE IF Len(HUMAN_TRAITS["EMOTIONS"]) = 0
              THEN [op |-> "get_random_emotion", kind |-> "raised",
                    value |-> "IndexError"]
              ELSE [op |-> "get_random_emotion", kind |-> "returned",
                    value |-> GetRandomEmotion(key, pick)]
    /\ UNCHANGED <<env, app_pc, validated, ELEVENLABS_ENABLED, vm_client, voices, trace>>

EmotionNext == GetRandomEmotionCall /\ UNCHANGED <<vadVars, recVars, guiVars, convVars>>

EmotionSpec == EmotionInit /\ [][EmotionNext]_vars

(***************************************************************************)
(* Claims about the detector (VadSpec).                                    *)
(***************************************************************************)
AllTrue3(s) == Len(s) = 3 /\ \A i \in 1..3 : s[i]
AllFalse3(s) == Len(s) = 3 /\ \A i \in 1..3 : ~s[i]

\* C3: is_speaking turns from false to true only on a frame that completes a
\* run of at least 3 consecutive positive raw decisions.
C3_EnterNeedsThreePositives ==
    (~was_speaking /\ is_speaking) => AllTrue3(raw_tail)

\* C4: is_speaking turns from true to false only on a frame at which the
\* decision buffer has reached 5 entries and the 3 most recent raw decisions
\* are all negative; otherwise a speaking detector stays speaking.
C4_LeaveNeedsFiveAndThreeSilent ==
    (was_speaking /\ ~is_speaking) => (buf_len_seen >= 5 /\ AllFalse3(raw_tail))

\* a detector that was speaking has just stopped
C4_Witness == was_speaking /\ ~is_speaking /\ speech_buffer = <<>>

(***************************************************************************)
(* Claims about the capture loop (RecSpec).                                *)
(***************************************************************************)
\* C7: once stop_event() is true during a capture, the next check of the
\* polling loop ends the capture (no iteration goes back to sleep).
C7_StopEventEndsCapture == ~slept_with_stop

\* C8: once the buffers delivered since the stream opened number
\* max_frames, the polling loop ends the capture, speech or no speech.
C8_MaxDurationEndsCapture == max_frames > 0 => ~slept_past_max

\* C9: once silent_frames has reached frames_before_silence after speech
\* started, the polling loop ends the capture under every interleaving.
C9_SilenceEndsCapture == ~slept_past_silence

\* C10: nothing delivered before the first buffer reported as speech is
\* accumulated; the utterance starts with that buffer and holds every buffer
\* delivered after it.
C10_NoLeadingSilence ==
    /\ first_speech = 0 => audio_buffer = <<>>
    /\ first_speech > 0 =>
          /\ Len(audio_buffer) = delivered - first_speech + 1
          /\ audio_buffer[1].speech
          /\ \A i \in 1..Len(audio_buffer) : audio_buffer[i].idx = first_speech + i - 1

\* leading silence was dropped and trailing silence was kept
C10_Witness ==
    /\ first_speech > 1
    /\ Len(audio_buffer) >= 2
    /\ ~audio_buffer[Len(audio_buffer)].speech
    /\ rec_result = "path"

(***************************************************************************)
(* Claims about the GUI (GuiSpec).                                         *)
(***************************************************************************)
\* C6: at most one _process_voice_thread worker is running at any time,
\* whatever the presses of the record button.
C6_OneRecordingWorker == Cardinality({w \in 1..MaxWorkers : Running(w)}) <= 1


(***************************************************************************)
(* Claims about the ConversationManager and get_response (Spec).           *)
(***************************************************************************)
\* C1: in every state reached after an add_message call ends, whether it
\* returned or raised, len(conversation_history) <= 2 * max_history + 1
C1_HistoryBounded ==
    (gr_pc = "done" /\ result.op = "add_message")
        => Len(conversation_history) <= 2 * max_history + 1

\* after is copies of the system message followed by the newest n entries of full
KeepsNewest(after, full, n) ==
    /\ Len(after) > n
    /\ LastN(after, n) = LastN(full, n)
    /\ \A i \in 1..(Len(after) - n) : after[i] = SystemMessage

\* what one step does to the history: a step that appends a message (the
\* manager's clock moves) ends with that message and lets go of nothing but
\* the oldest entries behind the system message; clear_conversation leaves
\* the system message alone; every other step leaves the history as it was
HistoryStep ==
    LET after == conversation_history'
        newest == after[Len(after)]
        full == Append(conversation_history, newest)
    IN  IF last_interaction_time' # last_interaction_time
        THEN /\ "timestamp" \in DOMAIN newest
             /\ newest.timestamp = last_interaction_time'
             /\ \E n \in 1..(Len(full) - 1) : KeepsNewest(after, full, n)
        ELSE IF gr_pc = "idle" /\ result'.op = "clear_conversation"
        THEN after = <<SystemMessage>>
        ELSE after = conversation_history

\* C2: over every sequence of add_message, get_response and
\* clear_conversation calls, conversation_history[0] is the system message
\* made at construction, and truncation drops only the oldest entries that
\* follow it
C2_SystemMessageKept ==
    /\ [](conversation_history[1] = SystemMessage)
    /\ [][HistoryStep]_vars

\* an add_message call with max_history >= 1 has truncated the history
C2_Witness ==
    /\ gr_pc = "done" /\ result.op = "add_message" /\ result.dropped > 0
    /\ max_history >= 1
    /\ Len(conversation_history) = 2 * max_history + 1
    /\ conversation_history[1] = SystemMessage

\* C5: get_response never propagates an exception; whatever the service and
\* the humanizer's draws do, the call returns a string
C5_GetResponseNeverRaises ==
    (gr_pc = "done" /\ result.op = "get_response") => result.kind = "returned"


(***************************************************************************)
(* Claims about persistence (PersistSpec).                                 *)
(***************************************************************************)
Min(a, b) == IF a <= b THEN a ELSE b

\* C11: a fresh ConversationManager(m) that loads a saved history holds the
\* system message followed by the last min(n, 2*m) of the n saved messages,
\* in order and unchanged
C11_RoundTrip ==
    (gr_pc = "done" /\ result.op = "construct" /\ result.value = "loaded")
        => conversation_history =
             <<SystemMessage>>
               \o LastN(history_file.data,
                        Min(Len(history_file.data), 2 * max_history))


\* C12: after clear_conversation returns, the history is the system message
\* alone and the history file does not exist
C12_ClearLeavesNoFile ==
    (gr_pc = "done" /\ result.op = "clear_conversation")
        => /\ conversation_history = <<SystemMessage>>
           /\ ~history_file.exists

\* C12, amended: after clear_conversation returns, the history is the system
\* message alone, and the history file does not exist unless its deletion
\* failed, in which case the file is left as it was
C12_ClearLeavesNoFileUnlessRemoveFails ==
    [][(gr_pc = "idle" /\ result'.op = "clear_conversation")
         => /\ conversation_history' = <<SystemMessage>>
            /\ IF result'.value = "remove failed"
               THEN history_file' = history_file
               ELSE ~history_file'.exists]_vars

\* clear_conversation has deleted the file of a saved conversation
C12_Witness ==
    /\ gr_pc = "done" /\ result.op = "clear_conversation"
    /\ result.value = "removed"
    /\ ~history_file.exists
    /\ conversation_history = <<SystemMessage>>
    /\ last_interaction_time > 0


(***************************************************************************)
(* Claims about add_message and get_response, call by call (Spec).         *)
(***************************************************************************)
\* the text is empty or holds nothing but whitespace
Blank(text) == \A i \in 1..Len(text) : IsSpace(Char(text, i))

\* C13: add_message with empty or whitespace-only content, for any role,
\* raises nothing and leaves conversation_history, last_interaction_time,
\* conversation_mood, user_name and user_preferences as they were
C13_BlankIsNoOp ==
    [][(gr_pc = "idle" /\ result'.op = "add_message" /\ Blank(locals'.args[2]))
         => /\ result'.kind = "returned"
            /\ UNCHANGED <<conversation_history, last_interaction_time,
                           conversation_mood, user_name, user_preferences>>]_vars

\* a blank assistant message was handed to a manager that holds messages
C13_Witness ==
    /\ gr_pc = "done" /\ result.op = "add_message" /\ result.kind = "returned"
    /\ Blank(locals.args[2]) /\ locals.args[1] = "assistant"
    /\ Len(conversation_history) > 1
    /\ last_interaction_time > 0


\* what follows the first "my name is " of the text, whatever the letter case
AfterPhrase(text) ==
    SubSeq(text, Find(Lower(text), "my name is ") + Len("my name is "), Len(text))

\* the whitespace-delimited token after the phrase, its trailing punctuation off
NameToken(text) == RStripPunct(SplitWs(AfterPhrase(text))[1])

\* C14: a user message that holds "my name is " in any letter case followed by
\* a token makes add_message return, with user_name and
\* user_preferences['name'] set to the token (trailing . , ! ? stripped) when
\* the stripped token is longer than one character
C14_NameRemembered ==
    (/\ gr_pc = "done" /\ result.op = "add_message"
     /\ locals.args[1] = "user"
     /\ Contains(Lower(locals.args[2]), "my name is ")
     /\ Len(SplitWs(AfterPhrase(locals.args[2]))) > 0)
        => /\ result.kind = "returned"
           /\ Len(NameToken(locals.args[2])) > 1
                => /\ user_name = NameToken(locals.args[2])
                   /\ <<"name", NameToken(locals.args[2])>> \in user_preferences


\* the text holds "my name is" with nothing but whitespace after it
PhraseWithoutToken(text) ==
    /\ Contains(Lower(text), "my name is")
    /\ Blank(SubSeq(text, Find(Lower(text), "my name is") + Len("my name is"),
                    Len(text)))

\* C15: a user message in which "my name is" is followed by no token makes
\* add_message return, with the message appended, the truncation applied and
\* user_name as it was
C15_NoTokenNoRaise ==
    [][(/\ gr_pc = "idle" /\ result'.op = "add_message"
        /\ locals'.args[1] = "user"
        /\ ~Blank(locals'.args[2])
        /\ PhraseWithoutToken(locals'.args[2]))
         => /\ result'.kind = "returned"
            /\ user_name' = user_name
            /\ conversation_history'[Len(conversation_history')].content
                 = locals'.args[2]
            /\ conversation_history' =
                 Truncate(Append(conversation_history,
                                 conversation_history'[Len(conversation_history')]),
                          max_history)]_vars


\* the completion service answered with an empty, whitespace-only or
\* non-string reply
UnusableReply(service) ==
    \/ service.kind = "nonstring"
    \/ service.kind = "text" /\ Blank(service.text)

\* C16: once the completion service has answered with an empty,
\* whitespace-only or non-string reply, get_response appends nothing to the
\* history and returns the unexpected-format apology
C16_EmptyReplyApology ==
    [][(gr_pc \in {"call", "except"} /\ UnusableReply(locals'.service))
         => /\ conversation_history' = conversation_history
            /\ gr_pc' = "done"
                 => /\ result'.kind = "returned"
                    /\ Contains(result'.value,
                                "I received an unexpected response format.")]_vars


\* the t and the r of a payload "[THOUGHTS:t][RESPONSE:r]"
ThoughtOf(payload) ==
    SubSeq(payload, Len("[THOUGHTS:") + 1, Find(payload, "][RESPONSE:") - 1)
ReplyOf(payload) ==
    SubSeq(payload, Find(payload, "][RESPONSE:") + Len("][RESPONSE:"),
           Len(payload) - 1)

\* the payload is "[THOUGHTS:t][RESPONSE:r]" with no ']' in t and r
ThoughtsThenResponse(payload) ==
    /\ StartsWith(payload, "[THOUGHTS:")
    /\ EndsWith(payload, "]")
    /\ Contains(payload, "][RESPONSE:")
    /\ ~Contains(ThoughtOf(payload), "]")
    /\ ~Contains(ReplyOf(payload), "]")

\* C17: for a payload "[THOUGHTS: t][RESPONSE: r]" with no ']' in t and r,
\* get_response returns r with the surrounding whitespace removed, what it
\* writes to the thoughts log is t trimmed, and t is nowhere in the returned
\* text
C17_ThoughtsSplitFromReply ==
    (/\ gr_pc = "done" /\ result.op = "get_response"
     /\ locals.service.kind = "text"
     /\ ThoughtsThenResponse(locals.service.text))
        => /\ result.kind = "returned"
           /\ result.value = Strip(ReplyOf(locals.service.text))
           /\ \A i \in 1..Len(thoughts_log) :
                thoughts_log[i] = Strip(ThoughtOf(locals.service.text))
           /\ ~Contains(result.value, Strip(ThoughtOf(locals.service.text)))


(***************************************************************************)
(* Claims about _analyze_sentiment (SentimentSpec).                        *)
(***************************************************************************)
\* word stands in the text as a whole whitespace-delimited token
IsToken(word, text) ==
    \E i \in 1..Len(text) :
        /\ i + Len(word) - 1 <= Len(text)
        /\ SubSeq(text, i, i + Len(word) - 1) = word
        /\ i = 1 \/ IsSpace(Char(text, i - 1))
        /\ i + Len(word) - 1 = Len(text) \/ IsSpace(Char(text, i + Len(word)))

\* how many words of the set are tokens of the lower-cased text
TokensAmong(wordset, text) ==
    Cardinality({w \in wordset : IsToken(w, Lower(text))})

PositiveCount(text) ==
    TokensAmong({"happy", "great", "awesome", "amazing", "love", "wonderful"}, text)
NegativeCount(text) ==
    TokensAmong({"sad", "bad", "terrible", "awful", "hate", "angry"}, text)

\* C18: _analyze_sentiment returns 'happy' iff the distinct positive words
\* among the lower-cased tokens outnumber the distinct negative ones by at
\* least 2, 'concerned' iff the negative ones outnumber the positive ones by
\* at least 2, 'neutral' otherwise, and nothing else
C18_SentimentByMargin ==
    locals.args # <<>> =>
        /\ gr_sentiment \in {"happy", "concerned", "neutral"}
        /\ gr_sentiment = "happy"
             <=> PositiveCount(locals.args[1]) >= NegativeCount(locals.args[1]) + 2
        /\ gr_sentiment = "concerned"
             <=> NegativeCount(locals.args[1]) >= PositiveCount(locals.args[1]) + 2

\* a text of three words with two upper-case positive words was judged happy
C18_Witness ==
    /\ locals.args # <<>>
    /\ gr_sentiment = "happy"
    /\ PositiveCount(locals.args[1]) = 2
    /\ Contains(locals.args[1], "LOVE") /\ Contains(locals.args[1], "Great")
    /\ Contains(locals.args[1], "sad,")


(***************************************************************************)
(* More claims about the detector (VadSpec).                               *)
(***************************************************************************)
\* C19: once the classifier has raised inside process_audio, the detector's
\* classifier is disabled and stays disabled, and every later frame gets
\* the decision of the energy heuristic
C19_DegradationIsOneWay ==
    classifier_threw => (~vad /\ energy_since_throw)

\* after the classifier raised, a later frame was found to be speech
C19_Witness ==
    /\ classifier_threw /\ ~vad /\ energy_since_throw
    /\ Len(raw_tail) = 3 /\ raw_tail[3] /\ ~raw_tail[2]


\* the sentence that opens the apology of an except clause
ApologyOpening(e) ==
    IF e.handler = "api"
    THEN "I'm having trouble connecting to the AI service."
    ELSE IF e.handler = "json"
    THEN "I had trouble understanding the response."
    ELSE IF e.handler = "value"
    THEN "I received an unexpected response format."
    ELSE "Hmm, something unexpected happened (" \o e.name \o ")."

\* C20: the step through an except clause of get_response returns the
\* apology of the clause's category (the unclassified one naming the
\* exception type), appends one record of that category to the error log
\* or, the write failing, none, and leaves the conversation state as it was
C20_ErrorPathApology ==
    [][(gr_pc = "except" /\ gr_pc' = "done")
         => /\ result'.kind = "returned"
            /\ Contains(result'.value, ApologyOpening(gr_exc))
            /\ \/ error_log' = error_log
               \/ /\ Len(error_log') = Len(error_log) + 1
                  /\ SubSeq(error_log', 1, Len(error_log)) = error_log
                  /\ error_log'[Len(error_log')].error_type
                       = IF gr_exc.handler = "api" THEN "API Error"
                         ELSE IF gr_exc.handler = "json" THEN "JSON Decode Error"
                         ELSE IF gr_exc.handler = "value" THEN "Value Error"
                         ELSE gr_exc.name
            /\ conversation_history' = conversation_history
            /\ user_name' = user_name
            /\ last_interaction_time' = last_interaction_time]_vars


(***************************************************************************)
(* Claims about the process (AppSpec).                                     *)
(***************************************************************************)
\* the last call ran conversation logic or reached a collaborator
RanLogic ==
    \E i \in 1..Len(trace) :
        trace[i] \in {"conversation", "completion", "transcription", "provider"}

\* C21: while a required credential is missing (and no validation has
\* passed) the window is never running, no conversation logic runs and no
\* transcription, completion or synthesis collaborator is reached
C21_NoLogicWithoutCredentials ==
    (MissingVars(env) # {} /\ ~validated) => (app_pc # "running" /\ ~RanLogic)

(***************************************************************************)
(* Claims about the speech modules (SpeechSpec).                           *)
(***************************************************************************)
\* the step occurs in the last call's trace
Tried(step) == \E i \in 1..Len(trace) : trace[i] = step

\* the last call was speak, with the TTS fallback allowed
SpokeWithFallback ==
    Len(last_call) = 4 /\ last_call[1] = "speak" /\ last_call[4]

\* C22: a speak call tries the catalog first, the emotion category only
\* after the catalog gave no match, and a synthesiser only after both; and
\* when nothing recorded is played and the provider is not used, the local
\* engine is tried
C22_FallbackChain ==
    SpokeWithFallback
      => /\ trace[1] = "catalog"
         /\ \A i \in 2..Len(trace) : trace[i] # "catalog"
         /\ Tried("emotion") => (trace[2] = "emotion" /\ last_call[3] # "neutral")
         /\ \A i \in 1..Len(trace) :
               trace[i] \in {"provider", "local", "play"} => i = Len(trace)
         /\ (~Tried("play") /\ ~Tried("provider")) => Tried("local")

\* C23: save_conversation, the construction of a manager and
\* clear_conversation return normally whatever the file system does; a
\* construction whose load fails leaves the system message alone, a save
\* leaves the history as it was, and a clear leaves its first message
C23_PersistenceNeverRaises ==
    [][(gr_pc = "idle" /\ gr_pc' = "done"
          /\ result'.op \in {"save_conversation", "construct", "clear_conversation"})
         => /\ result'.kind = "returned"
            /\ result'.op = "save_conversation"
                 => conversation_history' = conversation_history
            /\ result'.op = "clear_conversation"
                 => conversation_history' = <<conversation_history[1]>>
            /\ (result'.op = "construct" /\ ~Loads(history_file))
                 => conversation_history' = <<SystemMessage>>]_vars

\* a manager was constructed over a file that json.load rejects
C23_Witness ==
    /\ gr_pc = "done" /\ result.op = "construct" /\ result.kind = "returned"
    /\ result.value = "load failed"
    /\ history_file.exists /\ history_file.readable /\ ~history_file.parses
    /\ history_file.data # <<>>
    /\ conversation_history = <<SystemMessage>>

(***************************************************************************)
(* Claims about the detector inside a capture (RecSpec).                   *)
(***************************************************************************)
\* C24: between process_audio calls speech_buffer holds at most 5 entries,
\* and is_speaking changes only in a process_audio call and only as the
\* hysteresis rule allows: to true on a frame completing 3 consecutive
\* positive raw decisions, to false with 5 entries buffered and the last 3
\* raw decisions negative
C24_BufferBoundedRuleOwnsState ==
    [][/\ Len(speech_buffer') <= 5
       /\ is_speaking' # is_speaking
            => /\ delivered' = delivered + 1
               /\ is_speaking' => AllTrue3(raw_tail')
               /\ ~is_speaking' => (buf_len_seen' >= 5 /\ AllFalse3(raw_tail'))]_vars

\* C27: a finished VAD capture returns None exactly when no buffer was
\* reported as speech, and otherwise the path of a file holding every
\* buffer from the first one reported as speech to the last one delivered
C27_NoneIffNoSpeech ==
    rec_pc = "returned"
      => /\ rec_result = "None" <=> first_speech = 0
         /\ rec_result # "None"
              => /\ rec_result = "path"
                 /\ written = audio_buffer
                 /\ Len(written) = delivered - first_speech + 1
                 /\ \A i \in 1..Len(written) : written[i].idx = first_speech + i - 1

\* a capture ended after buffers were delivered, none of them speech
C27_Witness ==
    /\ rec_pc = "returned" /\ rec_result = "None"
    /\ delivered > 0 /\ first_speech = 0

(***************************************************************************)
(* Claims about speech_to_text and the voice manager (SpeechSpec).         *)
(***************************************************************************)
\* the last call was speech_to_text(file), meeting the outcome t
TranscribedFile == last_call[2]
Transcription == last_call[3]

\* C25: speech_to_text raises FileNotFoundError for a missing file and
\* PermissionError for an unreadable one before the credential check and
\* the provider call, and a provider call that fails reaches the caller as
\* SpeechRecognitionError
C25_InputErrorsFirst ==
    (Len(last_call) = 3 /\ last_call[1] = "speech_to_text")
      => /\ ~TranscribedFile.exists
              => /\ outcome.kind = "raised" /\ outcome.value = "FileNotFoundError"
                 /\ ~Tried("credential") /\ ~Tried("transcription")
         /\ (TranscribedFile.exists /\ ~TranscribedFile.readable)
              => /\ outcome.kind = "raised" /\ outcome.value = "PermissionError"
                 /\ ~Tried("credential") /\ ~Tried("transcription")
         /\ (Tried("transcription") /\ Transcription.kind = "raise")
              => (outcome.kind = "raised" /\ outcome.value = "SpeechRecognitionError")

\* the provider was called and failed
C25_Witness ==
    /\ Len(last_call) = 3 /\ last_call[1] = "speech_to_text"
    /\ Tried("transcription") /\ Transcription.kind = "raise"
    /\ outcome.kind = "raised" /\ outcome.value = "SpeechRecognitionError"

\* C26: the voice catalog of the voice manager is never empty, after
\* construction and after any load_voices, clone_voice and text_to_speech
\* calls
C26_VoicesNeverEmpty == Len(voices) >= 1

(***************************************************************************)
(* Claims about get_random_emotion (EmotionSpec).                          *)
(***************************************************************************)
ConfiguredEmotions ==
    {HUMAN_TRAITS["EMOTIONS"][i] : i \in 1..Len(HUMAN_TRAITS["EMOTIONS"])}

InCallOrder(history) ==
    \A i, j \in 1..Len(history) :
        (i < j /\ history[i].role # "system" /\ history[j].role # "system")
          => history[i].timestamp < history[j].timestamp

\* the step that sets the mood and adds the user message: the message carries
\* the sentiment of its text and the service was not called yet
MoodThenUserMessage ==
    (gr_pc = "idle" /\ gr_pc' # "idle")
      => /\ gr_sentiment' = AnalyzeSentiment(locals'.args[1])
         /\ locals'.service = NoService
         /\ IF Strip(locals'.args[1]) = ""
            THEN conversation_history' = conversation_history
            ELSE /\ Len(conversation_history') > 1
                 /\ conversation_history'[Len(conversation_history')].role = "user"
                 /\ conversation_history'[Len(conversation_history')].content
                      = locals'.args[1]
                 /\ conversation_history'[Len(conversation_history')].emotion
                      = AnalyzeSentiment(locals'.args[1])

\* the step that calls the service finds the user message as the last one,
\* and adds a message only when the reply was a non-blank string
ServiceThenAssistantMessage ==
    gr_pc = "call"
      => /\ locals.service = NoService /\ locals'.service # NoService
         /\ Strip(locals.args[1]) # ""
              => /\ conversation_history[Len(conversation_history)].role = "user"
                 /\ conversation_history[Len(conversation_history)].content
                      = locals.args[1]
         /\ conversation_history' # conversation_history
              => /\ locals'.service.kind = "text"
                 /\ Strip(locals'.service.text) # ""
                 /\ conversation_history'[Len(conversation_history')].role = "assistant"
                 /\ conversation_history'[Len(conversation_history')].emotion
                      = gr_sentiment

\* C29: within a get_response call the mood is set from the sentiment of the
\* user text, then the user message is appended, then the service is called,
\* and the assistant message is appended only after the reply was found
\* non-empty; the messages of successive calls stand in call order
C29_StepOrder ==
    [][/\ MoodThenUserMessage
       /\ ServiceThenAssistantMessage
       /\ gr_pc \in {"except", "done"} => UNCHANGED conversation_history
       /\ InCallOrder(conversation_history')]_vars

\* a second call has returned: its user message, of a concerned mood, and
\* the reply to it end the history
C29_Witness ==
    /\ gr_pc = "done" /\ result.kind = "returned" /\ Len(conversation_history) >= 3
    /\ conversation_history[Len(conversation_history)].role = "assistant"
    /\ conversation_history[Len(conversation_history) - 1].role = "user"
    /\ conversation_history[Len(conversation_history) - 1].emotion = "concerned"
    /\ conversation_history[Len(conversation_history) - 1].timestamp = 2

(***************************************************************************)
(* Claims about the writers of the conversation in the GUI (GuiSpec).      *)
(***************************************************************************)
\* the threads inside get_response or clear_conversation
Writers ==
    {w \in 1..MaxWorkers : worker[w] = "get_response"}
      \cup (IF ui_pc # "idle" THEN {0} ELSE {})

\* C30: at no time are two of the text entry, a voice worker and clear_chat
\* inside get_response, add_message or clear_conversation together
C30_WritersSerialized == Cardinality(Writers) <= 1

(***************************************************************************)
(* Claims about the stored messages (MessageSpec).                         *)
(***************************************************************************)
\* the step is an add_message call that appended a message (the manager's
\* clock moves right after the append)
Appended ==
    /\ gr_pc = "idle" /\ result'.op = "add_message"
    /\ last_interaction_time' # last_interaction_time

\* the appended message holds the content as given, except assistant content
\* without the thought marker, which holds what one pass of the humanizer
\* makes of it under the mood of the moment
StoredAsGiven ==
    Appended
      => LET role == locals'.args[1]
             content == locals'.args[2]
             stored == conversation_history'[Len(conversation_history')]
         IN  /\ stored.role = role
             /\ IF role = "assistant" /\ ~StartsWith(content, "[THOUGHTS:")
                THEN \E d \in Draws :
                       HumanizeText(content, conversation_mood, d)
                         = [exc |-> "", text |-> stored.content]
                ELSE stored.content = content

\* every message of the history after the step was in it before, field for
\* field, or is the one the step appended (the clock moved)
NothingRewritten ==
    \A i \in 1..Len(conversation_history') :
        \/ \E j \in 1..Len(conversation_history) :
             conversation_history[j] = conversation_history'[i]
        \/ /\ last_interaction_time' # last_interaction_time
           /\ i = Len(conversation_history')

\* C31: user and system content and assistant content that begins with
\* "[THOUGHTS:" is stored as given, other assistant content goes through the
\* humanizer once when it is appended, and no operation changes the role,
\* content, timestamp or emotion of a message that was appended
C31_StoredVerbatimAndImmutable == [][StoredAsGiven /\ NothingRewritten]_vars

\* a marked assistant message was stored as given after a humanized one,
\* which is still what it was
C31_Witness ==
    /\ gr_pc = "done" /\ result.op = "add_message" /\ Len(conversation_history) >= 3
    /\ conversation_history[Len(conversation_history)].content = "[THOUGHTS: plan] Hi"
    /\ conversation_history[Len(conversation_history) - 1].role = "assistant"
    /\ conversation_history[Len(conversation_history) - 1].content # "Hello there"
    /\ conversation_history[Len(conversation_history) - 1].timestamp = 1

\* the text with its first letter in lower case, as it stands after a filler
LowerFirst(text) == LowerChar(Char(text, 1)) \o SubSeq(text, 2, Len(text))

\* C32: for every non-blank assistant content and every outcome of the four
\* coin flips of the humanizer, add_message returns having appended one
\* message, whose content is the text (its first letter possibly in lower
\* case) with decoration before and after it only
C32_HumanizedAppend ==
    [][(/\ gr_pc = "idle" /\ result'.op = "add_message"
        /\ locals'.args[1] = "assistant" /\ ~Blank(locals'.args[2]))
         => /\ result'.kind = "returned"
            /\ last_interaction_time' = last_interaction_time + 1
            /\ conversation_history'[Len(conversation_history')].timestamp
                 = last_interaction_time'
            /\ \/ Contains(conversation_history'[Len(conversation_history')].content,
                           locals'.args[2])
               \/ Contains(conversation_history'[Len(conversation_history')].content,
                           LowerFirst(locals'.args[2]))]_vars

(***************************************************************************)
(* Claims about the thought segment (ThoughtsSpec).                        *)
(***************************************************************************)
\* the thought segment of a payload: the text between "[THOUGHTS:" and the
\* next "]", trimmed
ThoughtSegment(payload) ==
    Strip(SplitOnce(SplitOnce(payload, "[THOUGHTS:")[2], "]")[1])

\* the text holds neither the thought marker nor the thought segment
HoldsNoThought(text, payload) ==
    /\ ~Contains(text, "[THOUGHTS:")
    /\ ~Contains(text, ThoughtSegment(payload))

\* C33: for every completion that holds both markers, neither the text
\* get_response returns nor the assistant message it stores holds the
\* "[THOUGHTS:" marker or the thought segment (the call stored a message when
\* no exception was raised and the reply was not blank: it is the last one)
C33_ThoughtsStayOut ==
    (/\ gr_pc = "done" /\ result.op = "get_response"
     /\ locals.service.kind = "text"
     /\ Contains(locals.service.text, "[THOUGHTS:")
     /\ Contains(locals.service.text, "[RESPONSE:"))
        => /\ result.kind = "returned" => HoldsNoThought(result.value, locals.service.text)
           /\ (gr_exc.name = "" /\ Strip(result.value) # "")
                => HoldsNoThought(conversation_history[Len(conversation_history)].content,
                                  locals.service.text)

(***************************************************************************)
(* Claims about the energy heuristic (EnergySpec).                         *)
(***************************************************************************)
\* C34: without the classifier, the raw decision of process_audio on a float
\* frame is speech iff the mean absolute amplitude of the frame exceeds 0.01
\* on the [-1,1] scale (10000 millionths)
C34_EnergyThresholdNormalised ==
    (Len(last_call) = 3 /\ last_call[1] = "process_audio" /\ ~last_call[3])
        => (raw_tail[Len(raw_tail)] <=> last_call[2] > 10000)

(***************************************************************************)
(* Claims about the turns of a dialogue (DialogueSpec).                    *)
(***************************************************************************)
\* the message at i is an assistant message that does not follow the user
\* message appended one tick before it
Unpaired(history, i) ==
    /\ history[i].role = "assistant"
    /\ ~(/\ i > 1
         /\ history[i - 1].role = "user"
         /\ history[i - 1].timestamp + 1 = history[i].timestamp)

\* C35: over sequential get_response calls, while the history cap was not
\* reached, every assistant message of the history comes right after the
\* user message of its own call
C35_TurnsPaired ==
    last_interaction_time <= 2 * max_history
        => \A i \in 1..Len(conversation_history) : ~Unpaired(conversation_history, i)

(***************************************************************************)
(* Claims about the release of the detector (VadSpec).                     *)
(***************************************************************************)
\* the frame of the step got a negative raw decision
NegativeFrame == raw_tail' # <<>> /\ ~raw_tail'[Len(raw_tail')]

\* C36: a speaking detector stops speaking exactly on the frame that makes
\* the last three raw decisions negative, whatever came before, and its
\* decision buffer is empty from then; whenever a negative frame takes the
\* buffer beyond 5 entries, its last three entries are negative
C36_ReleaseOnThirdNegative ==
    [][/\ is_speaking
            => /\ ~is_speaking' <=> raw_tail' = <<FALSE, FALSE, FALSE>>
               /\ ~is_speaking' => speech_buffer' = <<>>
       /\ (NegativeFrame /\ buf_len_seen' > 5)
            => ~AnyTrue(LastN(Append(speech_buffer, FALSE), 3))]_vars

\* a speaking detector was released by a frame that took the buffer to six
\* entries
C36_Witness ==
    /\ was_speaking /\ ~is_speaking /\ speech_buffer = <<>>
    /\ buf_len_seen = 6 /\ raw_tail = <<FALSE, FALSE, FALSE>>

(***************************************************************************)
(* Claims about the module-level flag (DegradeSpec).                       *)
(***************************************************************************)
\* a classifier that failed to initialise or raised leaves the flag false
FailureClearsFlag ==
    /\ classifier_threw => ~VAD_AVAILABLE
    /\ (Len(last_call) = 3 /\ last_call[1] = "VoiceActivityDetector" /\ ~last_call[3])
         => ~VAD_AVAILABLE

\* a frame processed by a detector without classifier got the decision of
\* the energy heuristic
EnergyOnly ==
    (Len(last_call) = 3 /\ last_call[1] = "process_audio" /\ ~last_call[3])
        => raw_tail[Len(raw_tail)]
             = EnergyDecision([chunks |-> <<>>, amp |-> last_call[2]])

\* C37: once a classifier failed to initialise or raised in process_audio,
\* the flag VAD_AVAILABLE is false for good, and every detector constructed
\* from then on has no classifier and decides by the energy heuristic alone
C37_DegradationIsProcessWide ==
    /\ [](FailureClearsFlag /\ EnergyOnly /\ energy_since_throw)
    /\ [][~VAD_AVAILABLE => (~VAD_AVAILABLE' /\ ~vad')]_vars

\* a detector constructed after an earlier one's classifier raised has
\* processed a frame
C37_Witness ==
    /\ classifier_threw /\ ~VAD_AVAILABLE /\ ~vad
    /\ Len(last_call) = 3 /\ last_call[1] = "process_audio" /\ ~last_call[3]
    /\ Len(raw_tail) = 1 /\ raw_tail[1]

(***************************************************************************)
(* Claims about what clear_conversation leaves alone (Spec).               *)
(***************************************************************************)
\* C38: clear_conversation leaves user_name, user_preferences,
\* conversation_topics, conversation_mood and last_interaction_time as they
\* were before the reset
C38_ClearKeepsMeta ==
    [][(gr_pc = "idle" /\ result'.op = "clear_conversation")
         => UNCHANGED <<user_name, user_preferences, conversation_topics,
                        conversation_mood, last_interaction_time>>]_vars

\* a conversation that knew the user's name and had a warm mood was cleared
C38_Witness ==
    /\ gr_pc = "done" /\ result.op = "clear_conversation"
    /\ conversation_history = <<SystemMessage>>
    /\ user_name = "Kwame" /\ <<"name", "Kwame">> \in user_preferences
    /\ conversation_mood = "warm" /\ last_interaction_time > 0

(***************************************************************************)
(* Claims about the size of a returned utterance (RecSpec).                *)
(***************************************************************************)
\* the buffers at the end of the utterance that were not reported as speech
RECURSIVE TrailingSilent(_)
TrailingSilent(buffer) ==
    IF Len(buffer) = 0 \/ buffer[Len(buffer)].speech THEN 0
    ELSE 1 + TrailingSilent(SubSeq(buffer, 1, Len(buffer) - 1))

\* C39: under every interleaving of callbacks and polls the returned
\* utterance holds at most max_frames buffers (when max_frames > 0) and at
\* most frames_before_silence trailing silent buffers
C39_UtteranceBounded ==
    rec_pc = "returned"
      => /\ max_frames > 0 => Len(audio_buffer) <= max_frames
         /\ TrailingSilent(audio_buffer) <= frames_before_silence
====
